---- MODULE Spec2Model ----
(***************************************************************************)
(* Batch ingestion and aggregation pipeline of the analytics backend:      *)
(* POST /ingest (routes/ingest.ts) validates a batch and adds it to the    *)
(* BullMQ queue "ingest" under jobId = batchId (queue/IngestionQueue.ts);  *)
(* the worker (worker.ts) handles one job at a time, routing every event   *)
(* to its processor; click events are aggregated by                        *)
(* HeatmapRepository.recordClick.                                          *)
(*                                                                         *)
(* Normalised coordinates are carried in thousandths (0.27 is 270).        *)
(***************************************************************************)
EXTENDS Integers, Sequences, FiniteSets

\* ---------------------------------------------------------------- bounds
\* number of POST /ingest requests issued in one behaviour
MaxSubmits == 2
\* number of direct recordClick calls in one behaviour
MaxCalls == 4
\* number of createIngestionQueue calls in one behaviour
MaxCreates == 4
\* number of initializeSDK, destroySDK and Container.initialize calls in one
\* behaviour
MaxSdkCalls == 4
\* the last reading of Date.now() in one behaviour
MaxClock == 4
\* inactivityTimeoutMs of the SessionManager, in units of the clock
InactivityTimeoutMs == 1
\* number of session expirations a ReplayPlugin is told of in one behaviour
MaxExpirations == 3
\* number of init() calls on a ReplayPlugin in one behaviour
MaxInits == 2

\* ------------------------------------------------------ program constants
\* defaultJobOptions.attempts
Attempts == 3
\* defaultJobOptions.backoff.delay (ms)
BackoffDelay == 2000
\* concurrency of the Worker
Concurrency == 1
\* gridSize of calculateGridBucket
GridSize == 50

\* defaultJobOptions.removeOnComplete
RemoveOnComplete == TRUE

RemoveOnFailMutant == TRUE
\* defaultJobOptions.removeOnFail
RemoveOnFail == FALSE

\* ------------------------------------------------------------- the inputs
\* Events are JSON objects: records whose fields may be missing. Of the base
\* fields only eventId, type, projectId, sessionId and url are carried; the
\* others (clientId, userId, timestamp, referrer, pageDimensions,
\* viewport) are present and well formed in every body, as are pageX and
\* pageY of a click and rrwebPayload of an rrweb event.
Click1 == [eventId |-> "e1", type |-> "click",
  projectId |-> "p1", sessionId |-> "s1",
  url |-> "/home", xNorm |-> 270, yNorm |-> 350,
  selector |-> "#buy", tagName |-> "button"]
View2 == [eventId |-> "e2", type |-> "pageview",
  projectId |-> "p1", sessionId |-> "s1",
  url |-> "/home"]
Click3 == [eventId |-> "e3", type |-> "click",
  projectId |-> "p1", sessionId |-> "s1",
  url |-> "/home", xNorm |-> 999, yNorm |-> 1000,
  selector |-> "#nav", tagName |-> "a"]
Custom4 == [eventId |-> "e4", type |-> "custom",
  projectId |-> "p1", sessionId |-> "s1",
  url |-> "/home"]
Rrweb5 == [eventId |-> "e5", type |-> "rrweb",
  projectId |-> "p1", sessionId |-> "s1",
  url |-> "/home", replayId |-> "r1", schemaVersion |-> "1"]
View6 == [eventId |-> "e6", type |-> "pageview",
  projectId |-> "p1", sessionId |-> "s1",
  url |-> "/home"]
\* a click whose xNorm is 1.5
Click7 == [eventId |-> "e7", type |-> "click",
  projectId |-> "p1", sessionId |-> "s1",
  url |-> "/home", xNorm |-> 1500, yNorm |-> 350,
  selector |-> "#buy", tagName |-> "button"]
\* an event whose eventId is no UUID
Bad8 == [eventId |-> "x", type |-> "pageview",
  projectId |-> "p1", sessionId |-> "s1",
  url |-> "/home"]

\* a request body that is not JSON text
NotJson == [text |-> "{"]

\* the JSON request bodies a client posts
Payloads ==
  { [batchId |-> "b1", events |-> <<Click1>>],
    [batchId |-> "b2", events |-> <<View2, Click3, Custom4, Rrweb5, View6>>],
    [batchId |-> "b2", events |-> <<View2, Click7>>],
    [batchId |-> "b3", events |-> <<>>],
    [batchId |-> "b3", events |-> <<Bad8>>] }

BatchIds == {p.batchId : p \in Payloads}

\* JSON that is no batch: an object without batchId, and null
NoBatchId == [events |-> <<Click1>>]
JsonNull == [json |-> "null"]

\* the request bodies a client posts
Bodies == Payloads \cup {NoBatchId, JsonNull, NotJson}

\* c.req.json() returns for the body, else it throws
IsJson(body) == body # NotJson

\* ------------------------------------------------------------- validation
\* the strings z.string().uuid() accepts
Uuids == {"e1", "e2", "e3", "e4", "e5", "e6", "e7"}
\* z.enum of BaseEventSchema.type
EventTypes ==
  {"pageview", "click", "input", "route", "custom", "session_snapshot", "rrweb"}

BaseFields == {"eventId", "type", "projectId", "sessionId", "url"}
ClickFields == BaseFields \cup {"xNorm", "yNorm", "selector", "tagName"}
RrwebFields == BaseFields \cup {"replayId", "schemaVersion"}

\* z.object(...).parse keeps the fields of the schema and strips the others
Strip(e, fields) == [f \in DOMAIN e \cap fields |-> e[f]]

\* BaseEventSchema accepts e
BaseEventSchema(e) ==
  /\ BaseFields \subseteq DOMAIN e
  /\ e.eventId \in Uuids
  /\ e.projectId # ""
  /\ e.sessionId # ""
  /\ e.type \in EventTypes
  /\ e.url # ""

\* RrwebEventSchema accepts e
RrwebEventSchema(e) ==
  /\ BaseEventSchema(e)
  /\ e.type = "rrweb"
  /\ RrwebFields \subseteq DOMAIN e
  /\ e.replayId # ""

\* ClickEventSchema accepts e
ClickEventSchema(e) ==
  /\ BaseEventSchema(e)
  /\ e.type = "click"
  /\ ClickFields \subseteq DOMAIN e
  /\ e.xNorm >= 0 /\ e.xNorm <= 1000
  /\ e.yNorm >= 0 /\ e.yNorm <= 1000
  /\ e.selector # ""
  /\ e.tagName # ""

\* EventSchema = z.union([RrwebEventSchema, ClickEventSchema,
\* BaseEventSchema]) accepts e: the first member that parses e wins
EventSchema(e) ==
  RrwebEventSchema(e) \/ ClickEventSchema(e) \/ BaseEventSchema(e)

\* the output of EventSchema.parse(e), for an accepted e
ParseEvent(e) ==
  IF RrwebEventSchema(e) THEN Strip(e, RrwebFields)
  ELSE IF ClickEventSchema(e) THEN Strip(e, ClickFields)
  ELSE Strip(e, BaseFields)

\* BatchSchema.parse(data): batchId a non-empty string, events at least one
\* item, each accepted by EventSchema; it returns the parsed batch or throws
\* a ZodError
BatchSchemaParse(data) ==
  IF /\ {"batchId", "events"} \subseteq DOMAIN data
     /\ data.batchId # ""
     /\ Len(data.events) >= 1
     /\ \A k \in DOMAIN data.events : EventSchema(data.events[k])
    THEN [ok |-> TRUE,
          value |-> [batchId |-> data.batchId,
                     events |-> [k \in DOMAIN data.events |->
                                   ParseEvent(data.events[k])]]]
    ELSE [ok |-> FALSE, thrown |-> "ZodError"]

validateBatchLax(data) ==
  IF /\ {"batchId", "events"} \subseteq DOMAIN data
     /\ data.batchId # ""
    THEN [valid |-> TRUE,
          data |-> [batchId |-> data.batchId,
                    events |-> [k \in DOMAIN data.events |->
                                  ParseEvent(data.events[k])]]]
    ELSE [valid |-> FALSE, error |-> "Validation error"]
validateBatchRethrow(data) ==
  IF BatchSchemaParse(data).ok
    THEN [valid |-> TRUE, data |-> BatchSchemaParse(data).value]
    ELSE [valid |-> FALSE, thrown |-> BatchSchemaParse(data).thrown]
\* validateBatch(data): the parsed batch of BatchSchema.parse, or its error
\* caught and returned as a message
validateBatch(data) ==
  IF BatchSchemaParse(data).ok
    THEN [valid |-> TRUE, data |-> BatchSchemaParse(data).value]
    ELSE [valid |-> FALSE, error |-> "Validation error"]

\* ------------------------------------------------------------------ state
VARIABLES
  jobs,       \* the jobs stored in the queue "ingest", oldest first
  nextSeq,    \* number of jobs created so far (names the next job instance)
  inflight,   \* POST /ingest requests whose queue.add has not settled
  submitted,  \* number of POST /ingest requests received
  resp,       \* the last HTTP response sent by POST /ingest
  lastOp,     \* the last step of a POST /ingest handler: the request it
              \* read, or how its queue.add or its timer settled
  pc,         \* position of the worker: "idle", "loop", "settle"
  idx,        \* index of the next event of the handler's for loop
  results,    \* the handler's results object
  dispatched, \* events passed to routeEvent in the current attempt, with
              \* whether the call threw
  signal,     \* outcome of the handler: "none", "ok" (returned), "retry" (threw)
  heatmap,    \* rows of the heatmap_clicks table
  executed,   \* job instances the handler was invoked for: <<seq, jobId>>
  completed,  \* job instances that were moved to completed: <<seq, jobId>>
  rc,         \* the recordClick call of each direct caller of the repository
  started,    \* number of direct recordClick calls started
  hits,       \* successful direct recordClick calls, counted by bucket
  latest,     \* the selector of the last successful direct call, by bucket
  queue,      \* the module variable queue of index.ts: "null" until
              \* initialize() assigned it, then "ready"; "exit" once
              \* initialize() failed and process.exit(1) ended the process
  health,     \* the last response of GET /health, with what the checks gave
  readOut,    \* what the last read of the heatmap returned
  isConnected,   \* the module variable isConnected of IngestionQueue.ts
  queueInstance, \* the module variable queueInstance: 0 for null, else the
                 \* number of the Queue instance
  redisClient,   \* the socket of redisClient: "closed", "connecting", "ready"
  created,       \* number of Queue instances constructed so far
  creates,       \* number of createIngestionQueue calls made so far
  qc,            \* the createIngestionQueue call of each caller, and what
                 \* its last call returned
  globalContainer, \* the module variable globalContainer: 0 for null, else
                   \* the number of the Container
  containers,    \* the Containers constructed so far, by number
  sdkCalls,      \* number of SDK calls made so far
  destroys,      \* number of steps of destroySDK taken so far (its call and
                 \* its completion)
  sdk,           \* the SDK call of each caller, and what its last
                 \* initializeSDK resolved with
  clock,         \* Date.now() of the browser
  sessionData,   \* SessionManager.sessionData
  sessionId,     \* SessionManager.sessionId
  storage,       \* localStorage under the storage key: NoItem or the data
  expirationCallback,    \* whether SessionManager.expirationCallback is set
  activityCheckInterval, \* whether the setInterval timer is active
  callbackLog,   \* the session ids expirationCallback was invoked with
  sessOp,        \* the last SessionManager call and what it returned
  plugin,        \* the fields of the ReplayPlugin
  rrwebManager,  \* the fields of the plugin's RrwebManager (when it has one)
  recorders,     \* number of rrweb recorders started and not stopped
  idleCallbacks  \* number of requestIdleCallback callbacks not yet run

vars == <<jobs, nextSeq, inflight, submitted, resp, lastOp, pc, idx, results,
          dispatched, signal, heatmap, executed, completed, rc, started, hits,
          latest, queue, health, readOut, isConnected, queueInstance,
          redisClient, created, creates, qc, globalContainer, containers,
          sdkCalls, destroys, sdk, clock, sessionData, sessionId, storage,
          expirationCallback, activityCheckInterval, callbackLog, sessOp,
          plugin, rrwebManager, recorders, idleCallbacks>>

\* the state of createIngestionQueue
connVars == <<isConnected, queueInstance, redisClient, created, creates, qc>>
\* the state of the SDK entry point and its containers
sdkVars == <<globalContainer, containers, sdkCalls, destroys, sdk>>
\* the state of a SessionManager and of the browser around it
sessVars == <<clock, sessionData, sessionId, storage, expirationCallback,
              activityCheckInterval, callbackLog, sessOp>>
\* the state of a ReplayPlugin
replayVars == <<plugin, rrwebManager, recorders, idleCallbacks>>
\* the state outside the ingestion pipeline and the repository
otherVars == <<readOut, connVars, sdkVars, sessVars, replayVars>>

\* the state of the direct callers of the repository
repoVars == <<rc, started, hits, latest>>
\* the state of the process around the endpoint
sysVars == <<queue, health>>
\* the state of the endpoint, the queue and the worker
pipeVars == <<jobs, nextSeq, inflight, submitted, resp, lastOp, pc, idx, results,
              dispatched, signal, executed, completed>>

\* the clock read by new Date(): the requests and calls received so far
Now == submitted + started

NoResults == [succeeded |-> 0, failed |-> 0, errors |-> <<>>]

\* ------------------------------------------------------------- the queue
\* positions in js of the jobs stored under id
JobsWithId(js, id) == {i \in DOMAIN js : js[i].id = id}

RECURSIVE Pow2(_)
Pow2(n) == IF n = 0 THEN 1 ELSE 2 * Pow2(n - 1)

RECURSIVE RemoveAt(_, _)
\* js without its i-th element
RemoveAt(js, i) ==
  IF i = 1 THEN Tail(js) ELSE <<Head(js)>> \o RemoveAt(Tail(js), i - 1)

\* a new job as queue.add stores it; delays (the backoff delays applied), runs
\* (handler invocations) and adds (queue.add calls resolved to it) are its
\* history
NewJob(batch, seq) ==
  [id |-> batch.batchId, seq |-> seq, data |-> batch, state |-> "waiting",
   attemptsMade |-> 0, delays |-> <<>>, runs |-> 0, adds |-> 1]

QueueAddAlways(js, batch, seq) == Append(js, NewJob(batch, seq))
\* queue.add("ingest", batch, {jobId: batch.batchId}): a job whose id is still
\* stored under that jobId makes the call a no-op, otherwise the job is
\* appended to the wait list
QueueAdd(js, batch, seq) ==
  IF JobsWithId(js, batch.batchId) # {}
    THEN [i \in DOMAIN js |->
            IF js[i].id = batch.batchId THEN [js[i] EXCEPT !.adds = @ + 1]
                                        ELSE js[i]]
    ELSE Append(js, NewJob(batch, seq))

BackoffConstant(attemptsMade) == BackoffDelay
\* backoff {type: "exponential", delay: 2000} after attemptsMade failed attempts
Backoff(attemptsMade) == BackoffDelay * Pow2(attemptsMade - 1)

\* ---------------------------------------------------------- POST /ingest
\* if (!validation.valid) return 400
Rejected(validation) == ~validation.valid

AcceptedIfCreated(r) ==
  [status |-> IF JobsWithId(jobs, r.batch.batchId) = {} THEN 202 ELSE 200,
   batchId |-> r.batch.batchId, rid |-> r.rid]
\* the 202 of the handler: {success, batchId, jobId: job.id}
Accepted(r) == [status |-> 202, batchId |-> r.batch.batchId, rid |-> r.rid]

ServerErrorAccepted(r) == [status |-> 202, batchId |-> r.batch.batchId, rid |-> r.rid]
\* the 500 of the outer catch when queue.add rejected
ServerError(r) == [status |-> 500, batchId |-> "", rid |-> r.rid]

TimedOutAccepted(r) == [status |-> 202, batchId |-> r.batch.batchId, rid |-> r.rid]
\* the 500 of the outer catch when the 5 s timer rejected the race
TimedOut(r) == [status |-> 500, batchId |-> "", rid |-> r.rid]

\* initialize() runs to its end: the database answered and
\* createIngestionQueue() returned the queue; a worker that fails to start
\* is only logged
Initialize ==
  /\ queue = "null"
  /\ queue' = "ready"
  /\ UNCHANGED <<pipeVars, repoVars, heatmap, health, otherVars>>

\* initialize() throws (database not connected, or createIngestionQueue
\* failed): the catch of the module calls process.exit(1)
InitializeFail ==
  /\ queue = "null"
  /\ queue' = "exit"
  /\ UNCHANGED <<pipeVars, repoVars, heatmap, health, otherVars>>

QueueIsNullNever == FALSE
\* if (!queue) of the routes
QueueIsNull == queue = "null"

\* the answer of the routes while queue is null
NotInitialized(rid) == [status |-> 503, batchId |-> "", rid |-> rid]

\* POST /ingest while queue is null: 503, ingestHandler is not called
IngestNotReady ==
  /\ queue # "exit"
  /\ QueueIsNull
  /\ submitted < MaxSubmits
  /\ \E body \in Bodies :
       /\ submitted' = submitted + 1
       /\ lastOp' = [op |-> "post", rid |-> submitted + 1, body |-> body]
       /\ resp' = NotInitialized(submitted + 1)
  /\ UNCHANGED <<jobs, nextSeq, inflight, pc, idx, results, dispatched,
                 signal, heatmap, executed, completed>>
  /\ UNCHANGED <<repoVars, sysVars, otherVars>>

\* what await checkDbConnection() gives: true, false, or a rejection
DbCheckOutcomes == {"connected", "disconnected", "throws"}
\* what await queue.getJobCounts() gives: the counts, or a rejection
CountsOutcomes == {"counted", "throws"}

\* healthHandler: the status it answers with for the outcomes of its checks
HealthStatus(db, counts) ==
  IF db = "throws" THEN 500
  ELSE IF db = "connected" /\ counts = "counted" THEN 200
  ELSE 503

\* GET /health: 503 while queue is null, else healthHandler
HealthCheck ==
  /\ queue # "exit"
  /\ IF QueueIsNull
       THEN health' = [status |-> 503, queue |-> "null", db |-> "", counts |-> ""]
       ELSE \E db \in DbCheckOutcomes :
              \E counts \in (IF db = "throws" THEN {""} ELSE CountsOutcomes) :
                health' = [status |-> HealthStatus(db, counts),
                           queue |-> "ready", db |-> db, counts |-> counts]
  /\ UNCHANGED <<pipeVars, repoVars, heatmap, queue, otherVars>>

\* the handler up to its await of Promise.race: body read (500 when it is
\* not JSON), validation (400 when it fails), queue.add issued
IngestStart ==
  /\ queue # "exit"
  /\ ~QueueIsNull
  /\ submitted < MaxSubmits
  /\ \E body \in Bodies :
       /\ submitted' = submitted + 1
       /\ lastOp' = [op |-> "post", rid |-> submitted + 1, body |-> body]
       /\ IF ~IsJson(body)
            THEN /\ resp' = [status |-> 500, batchId |-> "",
                             rid |-> submitted + 1]
                 /\ inflight' = inflight
            ELSE LET validation == validateBatch(body) IN
                 IF Rejected(validation)
                   THEN /\ resp' = [status |-> 400, batchId |-> "",
                                    rid |-> submitted + 1]
                        /\ inflight' = inflight
                   ELSE /\ inflight' = inflight \cup
                             {[rid |-> submitted + 1, body |-> body,
                               batch |-> validation.data, answered |-> FALSE]}
                        /\ resp' = resp
  /\ UNCHANGED <<jobs, nextSeq, pc, idx, results, dispatched, signal,
                 heatmap, executed, completed>>
  /\ UNCHANGED <<repoVars, sysVars, otherVars>>

\* queue.add resolves: the job is stored unless its jobId exists; a handler
\* still waiting in Promise.race answers 202
AddResolve ==
  \E r \in inflight :
    /\ jobs' = QueueAdd(jobs, r.batch, nextSeq)
    /\ nextSeq' = IF Len(jobs') > Len(jobs) THEN nextSeq + 1 ELSE nextSeq
    /\ inflight' = inflight \ {r}
    /\ resp' = IF r.answered THEN resp ELSE Accepted(r)
    /\ lastOp' = [op |-> "resolved", rid |-> r.rid]
    /\ UNCHANGED <<submitted, pc, idx, results, dispatched, signal, heatmap,
                   executed, completed>>
    /\ UNCHANGED <<repoVars, sysVars, otherVars>>

\* queue.add rejects: the handler answers 500 unless the timeout already did
AddReject ==
  \E r \in inflight :
    /\ inflight' = inflight \ {r}
    /\ resp' = IF r.answered THEN resp ELSE ServerError(r)
    /\ lastOp' = [op |-> "rejected", rid |-> r.rid]
    /\ UNCHANGED <<jobs, nextSeq, submitted, pc, idx, results, dispatched,
                   signal, heatmap, executed, completed>>
    /\ UNCHANGED <<repoVars, sysVars, otherVars>>

\* the 5 s timer of Promise.race fires first: 500, queue.add stays pending
IngestTimeout ==
  \E r \in inflight :
    /\ ~r.answered
    /\ inflight' = (inflight \ {r}) \cup {[r EXCEPT !.answered = TRUE]}
    /\ resp' = TimedOut(r)
    /\ lastOp' = [op |-> "timeout", rid |-> r.rid]
    /\ UNCHANGED <<jobs, nextSeq, submitted, pc, idx, results, dispatched,
                   signal, heatmap, executed, completed>>
    /\ UNCHANGED <<repoVars, sysVars, otherVars>>

\* ------------------------------------------------------ HeatmapRepository
\* a field the caller left out (undefined); no coordinate has this value
Undefined == 0 - 1000001
\* the number NaN; no bucket has this value
NaN == 0 - 1000000

calculateGridBucketNoClamp(norm) ==
  IF norm = Undefined \/ norm = NaN THEN NaN ELSE (norm * GridSize) \div 1000
\* calculateGridBucket(norm), norm in thousandths: Math.floor(norm * gridSize)
\* clamped to 0 .. gridSize - 1; Math.floor, Math.max and Math.min of NaN
\* (and of undefined * 50) are NaN
calculateGridBucket(norm) ==
  IF norm = Undefined \/ norm = NaN THEN NaN
  ELSE LET bucket == (norm * GridSize) \div 1000
           lower == IF bucket > 0 THEN bucket ELSE 0
       IN IF lower < GridSize - 1 THEN lower ELSE GridSize - 1

\* the rows the select of recordClick matches
Existing(rows, projectId, url, gridX, gridY) ==
  {r \in rows : /\ r.projectId = projectId /\ r.url = url
                /\ r.gridX = gridX /\ r.gridY = gridY}

UpdateRowNoIncrement(rows, existing, now) ==
  {IF r.id = existing.id THEN [r EXCEPT !.lastClickAt = now] ELSE r : r \in rows}
\* update ... set count = existing[0].count + 1, lastClickAt = new Date()
\* where id = existing[0].id; existing is the row as the select read it
UpdateRow(rows, existing, now) ==
  {IF r.id = existing.id
     THEN [r EXCEPT !.count = existing.count + 1, !.lastClickAt = now]
     ELSE r : r \in rows}

\* insert ... values {projectId, url, gridX, gridY, selector, ..., count: 1};
\* of the descriptive columns only selector is carried
InsertRow(rows, args, gridX, gridY, now) ==
  rows \cup {[id |-> Cardinality(rows) + 1, projectId |-> args.projectId,
              sessionId |-> args.sessionId, url |-> args.url, gridX |-> gridX, gridY |-> gridY,
              selector |-> args.selector, count |-> 1, lastClickAt |-> now]}

RecordClickMustThrowNever(args) == FALSE
\* recordClick cannot return for these arguments: with xNorm or yNorm
\* undefined the select fails on the NaN bucket or, finding no row, the
\* insert values throw on xNorm.toString()
RecordClickMustThrow(args) == args.xNorm = Undefined \/ args.yNorm = Undefined

\* the rows in the order of orderBy(gridX, gridY)
RECURSIVE OrderByGrid(_)
OrderByGrid(rows) ==
  IF rows = {} THEN <<>>
  ELSE LET first == CHOOSE r \in rows :
                      \A o \in rows :
                        \/ r.gridX < o.gridX
                        \/ r.gridX = o.gridX /\ r.gridY < o.gridY
                        \/ r.gridX = o.gridX /\ r.gridY = o.gridY /\ r.id <= o.id
       IN <<first>> \o OrderByGrid(rows \ {first})

\* getHeatmapForUrl(projectId, url): the rows of the pair, ordered
getHeatmapForUrl(rows, projectId, url) ==
  OrderByGrid({r \in rows : r.projectId = projectId /\ r.url = url})

\* getHeatmapForSession(sessionId): the rows whose sessionId column is
\* sessionId, in no stated order
getHeatmapForSession(rows, session) ==
  {r \in rows : r.sessionId = session}

recordClickByUrl(rows, args, now) ==
  LET existing == {r \in rows : r.projectId = args.projectId /\ r.url = args.url}
  IN IF existing # {}
       THEN {IF r \in existing
               THEN [r EXCEPT !.count = @ + 1, !.lastClickAt = now]
               ELSE r : r \in rows}
       ELSE InsertRow(rows, args, calculateGridBucket(args.xNorm),
                      calculateGridBucket(args.yNorm), now)
\* recordClick(args) run alone and without a database error: select the
\* bucket's row, then update its count or insert a row with count 1
recordClick(rows, args, now) ==
  LET gridX == calculateGridBucket(args.xNorm)
      gridY == calculateGridBucket(args.yNorm)
      existing == Existing(rows, args.projectId, args.url, gridX, gridY)
  IN IF existing # {}
       THEN UpdateRow(rows, CHOOSE r \in existing : \A o \in existing : r.id <= o.id,
                      now)
       ELSE InsertRow(rows, args, gridX, gridY, now)

\* processClickEvent(event): the arguments it hands to recordClick, the
\* event's fields as they are
processClickEvent(e) ==
  [projectId |-> e.projectId, sessionId |-> e.sessionId, url |-> e.url,
   xNorm |-> IF "xNorm" \in DOMAIN e THEN e.xNorm ELSE Undefined,
   yNorm |-> IF "yNorm" \in DOMAIN e THEN e.yNorm ELSE Undefined,
   selector |-> IF "selector" \in DOMAIN e THEN e.selector ELSE ""]

\* -------------------------------------------------------------- the worker
routeEventCustom(type) ==
  CASE type = "rrweb" -> "processRrwebEvent"
    [] type = "click" -> "processClickEvent"
    [] type \in {"pageview", "custom"} -> "processPageViewEvent"
    [] OTHER -> "none"
\* routeEvent: the processor the switch calls for a type, "none" when skipped
routeEvent(type) ==
  CASE type = "rrweb" -> "processRrwebEvent"
    [] type = "click" -> "processClickEvent"
    [] type = "pageview" -> "processPageViewEvent"
    [] OTHER -> "none"

RecordOutcomeNoError(res, e, threw) ==
  IF threw THEN [res EXCEPT !.failed = @ + 1]
           ELSE [res EXCEPT !.succeeded = @ + 1]
\* the body of the for loop after routeEvent settled: try counts a success,
\* catch counts a failure and records eventId
RecordOutcome(res, e, threw) ==
  IF threw
    THEN [res EXCEPT !.failed = @ + 1,
                     !.errors = Append(@, [eventId |-> e.eventId])]
    ELSE [res EXCEPT !.succeeded = @ + 1]

NextEventAbort(i, threw, n) == IF threw THEN n + 1 ELSE i + 1
\* the for loop goes on with the next event whether routeEvent threw or not
NextEvent(i, threw, n) == i + 1

HandlerSignalAnyFailed(res, n) == IF res.failed > 0 THEN "retry" ELSE "ok"
\* the handler throws when results.failed === events.length, else returns
HandlerSignal(res, n) == IF res.failed = n THEN "retry" ELSE "ok"

Waiting == {i \in DOMAIN jobs : jobs[i].state = "waiting"}
Active == {i \in DOMAIN jobs : jobs[i].state = "active"}

WorkerFreeTwo == Cardinality(Active) < Concurrency + 1
\* the worker runs at most concurrency handlers at a time
WorkerFree == Cardinality(Active) < Concurrency

\* the worker fetches the oldest waiting job and calls the handler
WorkerTake ==
  /\ WorkerFree
  /\ Waiting # {}
  /\ LET i == CHOOSE w \in Waiting : \A o \in Waiting : w <= o IN
       /\ jobs' = [jobs EXCEPT ![i].state = "active", ![i].runs = @ + 1]
       /\ executed' = executed \cup {<<jobs[i].seq, jobs[i].id>>}
  /\ pc' = "loop"
  /\ idx' = 1
  /\ results' = NoResults
  /\ dispatched' = <<>>
  /\ signal' = "none"
  /\ UNCHANGED <<nextSeq, inflight, submitted, resp, lastOp, heatmap, completed>>
  /\ UNCHANGED <<repoVars, sysVars, otherVars>>

\* one iteration of the for loop: await routeEvent(event), which returns or
\* throws
ProcessEvent ==
  /\ pc = "loop"
  /\ \E i \in Active :
       LET events == jobs[i].data.events
           n == Len(events)
       IN /\ idx <= n
          /\ LET e == events[idx]
                 proc == routeEvent(e.type)
             IN \E threw \in (IF proc = "none" THEN {FALSE}
                             ELSE IF /\ proc = "processClickEvent"
                                     /\ RecordClickMustThrow(processClickEvent(e))
                               THEN {TRUE}
                               ELSE BOOLEAN) :
                  /\ dispatched' = Append(dispatched,
                                          [eventId |-> e.eventId, proc |-> proc,
                                           threw |-> threw])
                  /\ results' = RecordOutcome(results, e, threw)
                  /\ heatmap' = IF proc = "processClickEvent" /\ ~threw
                                  THEN recordClick(heatmap, processClickEvent(e),
                                                   Now)
                                  ELSE heatmap
                  /\ idx' = NextEvent(idx, threw, n)
  /\ UNCHANGED <<jobs, nextSeq, inflight, submitted, resp, lastOp, pc, signal,
                 executed, completed>>
  /\ UNCHANGED <<repoVars, sysVars, otherVars>>

\* after the loop: throw (retry) or return results (ok)
HandlerEnd ==
  /\ pc = "loop"
  /\ \E i \in Active :
       /\ idx > Len(jobs[i].data.events)
       /\ signal' = HandlerSignal(results, Len(jobs[i].data.events))
  /\ pc' = "settle"
  /\ UNCHANGED <<jobs, nextSeq, inflight, submitted, resp, lastOp, idx, results,
                 dispatched, heatmap, executed, completed>>
  /\ UNCHANGED <<repoVars, sysVars, otherVars>>

MoveToCompletedRetry(js, i) ==
  [js EXCEPT ![i].state = "delayed", ![i].attemptsMade = @ + 1]
\* the handler returned: the job is completed and, with removeOnComplete,
\* removed from the queue together with its jobId
MoveToCompleted(js, i) ==
  IF RemoveOnComplete
    THEN RemoveAt(js, i)
    ELSE [js EXCEPT ![i].state = "completed", ![i].attemptsMade = @ + 1]

MoveToFailedTrim(js, i) ==
  LET made == js[i].attemptsMade + 1 IN
  IF made < Attempts
    THEN [js EXCEPT ![i].attemptsMade = made, ![i].state = "delayed",
                    ![i].delays = Append(@, BackoffDelay),
                    ![i].data.events = Tail(@)]
    ELSE [js EXCEPT ![i].attemptsMade = made, ![i].state = "failed"]
MoveToFailedNoRetry(js, i) ==
  [js EXCEPT ![i].attemptsMade = @ + 1, ![i].state = "failed"]
MoveToFailedDrop(js, i) ==
  IF js[i].attemptsMade + 1 < Attempts
    THEN RemoveAt(js, i)
    ELSE [js EXCEPT ![i].attemptsMade = @ + 1, ![i].state = "failed"]
\* the handler threw: with attempts left the job is delayed by its backoff,
\* otherwise it is failed and, without removeOnFail, kept
MoveToFailed(js, i) ==
  LET made == js[i].attemptsMade + 1 IN
  IF made < Attempts
    THEN [js EXCEPT ![i].attemptsMade = made, ![i].state = "delayed",
                    ![i].delays = Append(@, Backoff(made))]
    ELSE IF RemoveOnFail
           THEN RemoveAt(js, i)
           ELSE [js EXCEPT ![i].attemptsMade = made, ![i].state = "failed"]

\* events of the types the endpoint's payloads above do not carry; "scroll"
\* is no type of the enum
Input9 == [eventId |-> "e9", type |-> "input",
  projectId |-> "p1", sessionId |-> "s1",
  url |-> "/home"]
Route10 == [eventId |-> "e10", type |-> "route",
  projectId |-> "p1", sessionId |-> "s1",
  url |-> "/home"]
Snapshot11 == [eventId |-> "e11", type |-> "session_snapshot",
  projectId |-> "p1", sessionId |-> "s1", url |-> "/home"]
Scroll12 == [eventId |-> "e12", type |-> "scroll",
  projectId |-> "p1", sessionId |-> "s1",
  url |-> "/home"]

\* job payloads found in the queue "ingest" by a worker
QueuedBatches ==
  { [batchId |-> "d1", events |-> <<Input9, Route10, Custom4>>],
    [batchId |-> "d2", events |-> <<Snapshot11, Rrweb5>>],
    [batchId |-> "d3", events |-> <<Scroll12, View2>>],
    [batchId |-> "d4", events |-> <<Click1>>] }

\* a producer of the queue "ingest" adds a job while the queue is empty
QueueProduce ==
  /\ jobs = <<>>
  /\ nextSeq <= MaxSubmits
  /\ \E batch \in QueuedBatches :
       jobs' = QueueAdd(jobs, batch, nextSeq)
  /\ nextSeq' = nextSeq + 1
  /\ UNCHANGED <<inflight, submitted, resp, lastOp, pc, idx, results,
                 dispatched, signal, heatmap, executed, completed>>
  /\ UNCHANGED <<repoVars, sysVars, otherVars>>

\* the worker reports the handler's outcome to the queue
Settle ==
  /\ pc = "settle"
  /\ \E i \in Active :
       IF signal = "ok"
         THEN /\ jobs' = MoveToCompleted(jobs, i)
              /\ completed' = completed \cup {<<jobs[i].seq, jobs[i].id>>}
         ELSE /\ jobs' = MoveToFailed(jobs, i)
              /\ completed' = completed
  /\ pc' = "idle"
  /\ idx' = 1
  /\ results' = NoResults
  /\ dispatched' = <<>>
  /\ signal' = "none"
  /\ UNCHANGED <<nextSeq, inflight, submitted, resp, lastOp, heatmap, executed>>
  /\ UNCHANGED <<repoVars, sysVars, otherVars>>

\* the backoff delay of a delayed job has passed: back to the wait list
PromoteDelayed ==
  /\ \E i \in DOMAIN jobs :
       /\ jobs[i].state = "delayed"
       /\ jobs' = Append(RemoveAt(jobs, i), [jobs[i] EXCEPT !.state = "waiting"])
  /\ UNCHANGED <<nextSeq, inflight, submitted, resp, lastOp, pc, idx, results,
                 dispatched, signal, heatmap, executed, completed>>
  /\ UNCHANGED <<repoVars, sysVars, otherVars>>

\* ------------------------------------- direct callers of the repository
\* recordClick is a public async method of the exported heatmapRepository:
\* its callers are the worker of this process and the workers of every other
\* process started on the same database. A bucket key is written
\* <<gridX, gridY>>: every call is for project "p1" and url "/home".
Args1 == [projectId |-> "p1", sessionId |-> "s1", url |-> "/home", xNorm |-> 200, yNorm |-> 400,
          selector |-> "#a"]
Args2 == [projectId |-> "p1", sessionId |-> "s2", url |-> "/home", xNorm |-> 210, yNorm |-> 410,
          selector |-> "#b"]
Args3 == [projectId |-> "p1", sessionId |-> "s1", url |-> "/home", xNorm |-> 999, yNorm |-> 0,
          selector |-> "#c"]
Args4 == [projectId |-> "p1", sessionId |-> "s2", url |-> "/home", xNorm |-> 0 - 100,
          yNorm |-> 1000, selector |-> "#d"]

\* the arguments recordClick is called with
ClickArgs == {Args1, Args2, Args3, Args4}

\* the bucket keys of ClickArgs
Keys ==
  {<<calculateGridBucket(a.xNorm), calculateGridBucket(a.yNorm)>> : a \in ClickArgs}

Callers == {"w1", "w2"}

\* a caller outside recordClick
Idle == [pc |-> "idle"]

\* the insert meets a row of its key that was stored after the select; the
\* table definition decides whether it is refused (a unique index on
\* projectId, url, gridX, gridY) or adds a second row of the key
InsertConflicts(rows, args, gridX, gridY) ==
  Existing(rows, args.projectId, args.url, gridX, gridY) # {}

\* caller c enters recordClick(args): gridX and gridY are computed
RcCall(c, args) ==
  /\ started < MaxCalls
  /\ rc[c].pc = "idle"
  /\ rc' = [rc EXCEPT ![c] = [pc |-> "select", args |-> args,
                              gridX |-> calculateGridBucket(args.xNorm),
                              gridY |-> calculateGridBucket(args.yNorm),
                              existing |-> {}]]
  /\ started' = started + 1
  /\ UNCHANGED <<heatmap, hits, latest>>
  /\ UNCHANGED <<pipeVars, sysVars, otherVars>>

\* a recordClick call starts while no other call is in progress
RecordClickAlone ==
  /\ \A c \in Callers : rc[c].pc = "idle"
  /\ \E c \in Callers, args \in ClickArgs : RcCall(c, args)

\* a recordClick call starts, whatever the other callers are doing
RecordClickCall == \E c \in Callers, args \in ClickArgs : RcCall(c, args)

\* await db.select()...limit(1) returns: existing holds the row found, if any
RecordClickSelect ==
  \E c \in Callers :
    /\ rc[c].pc = "select"
    /\ LET found == Existing(heatmap, rc[c].args.projectId, rc[c].args.url,
                             rc[c].gridX, rc[c].gridY)
       IN IF found = {}
            THEN rc' = [rc EXCEPT ![c].pc = "write"]
            ELSE \E row \in found :
                   rc' = [rc EXCEPT ![c].pc = "write", ![c].existing = {row}]
    /\ UNCHANGED <<heatmap, started, hits, latest>>
    /\ UNCHANGED <<pipeVars, sysVars, otherVars>>

\* await db.update() or db.insert() returns and recordClick returns the row;
\* a refused insert throws
RecordClickWrite ==
  \E c \in Callers :
    /\ rc[c].pc = "write"
    /\ \E refused \in
           IF /\ rc[c].existing = {}
              /\ InsertConflicts(heatmap, rc[c].args, rc[c].gridX, rc[c].gridY)
             THEN BOOLEAN ELSE {FALSE} :
       LET call == rc[c]
           key == <<call.gridX, call.gridY>>
       IN /\ heatmap' =
               IF call.existing # {}
                 THEN UpdateRow(heatmap, CHOOSE r \in call.existing : TRUE, Now)
                 ELSE IF refused THEN heatmap
                 ELSE InsertRow(heatmap, call.args, call.gridX, call.gridY, Now)
          /\ hits' = IF refused THEN hits ELSE [hits EXCEPT ![key] = @ + 1]
          /\ latest' = IF refused THEN latest
                       ELSE [latest EXCEPT ![key] = call.args.selector]
    /\ rc' = [rc EXCEPT ![c] = Idle]
    /\ UNCHANGED started
    /\ UNCHANGED <<pipeVars, sysVars, otherVars>>

\* the database fails the select, the update or the insert: recordClick
\* rethrows and nothing is written
RecordClickThrow ==
  \E c \in Callers :
    /\ rc[c].pc \in {"select", "write"}
    /\ rc' = [rc EXCEPT ![c] = Idle]
    /\ UNCHANGED <<heatmap, started, hits, latest>>
    /\ UNCHANGED <<pipeVars, sysVars, otherVars>>

\* ----------------------------------------------------- reads of the store
\* nothing was read yet
NoRead == [op |-> "none"]

\* the sessions the visualization asks for
ReadSessions == {"s1", "s2"}

\* getHeatmapForUrl("p1", "/home") is called and returns its rows
GetHeatmapForUrl ==
  /\ readOut' = [op |-> "url", rows |-> getHeatmapForUrl(heatmap, "p1", "/home")]
  /\ UNCHANGED <<pipeVars, heatmap, repoVars, sysVars>>
  /\ UNCHANGED <<connVars, sdkVars, sessVars, replayVars>>

\* getHeatmapForSession(sessionId) is called and returns its rows
GetHeatmapForSession ==
  /\ \E s \in ReadSessions :
       readOut' = [op |-> "session", rows |-> getHeatmapForSession(heatmap, s)]
  /\ UNCHANGED <<pipeVars, heatmap, repoVars, sysVars>>
  /\ UNCHANGED <<connVars, sdkVars, sessVars, replayVars>>

\* ---------------------------------------------------- createIngestionQueue
\* the callers of createIngestionQueue in one process
QueueCallers == {"q1", "q2", "q3"}

\* a caller outside createIngestionQueue that was returned instance got (0:
\* none yet)
QcIdle(got) == [pc |-> "idle", got |-> got]

\* the errors await redisClient.connect() rejects with when the server cannot
\* be reached
ConnectErrors == {"ECONNREFUSED"}

\* redisClient.isOpen: true from the moment connect() was called, while the
\* socket is still connecting as well as when it is ready
IsOpen == redisClient # "closed"

\* the catch of ensureConnected: "Socket already opened" is taken as
\* connected, any other error is rethrown
EnsureCatch(message) ==
  IF message # "Socket already opened" THEN "throw" ELSE "connected"

\* if (queueInstance) of createIngestionQueue
QueueInstanceSet == queueInstance # 0

\* a caller c calls createIngestionQueue(): it returns queueInstance when set;
\* otherwise ensureConnected() runs up to its first await: it returns at
\* once when isConnected or isOpen, else it calls redisClient.connect()
CreateIngestionQueue ==
  \E c \in QueueCallers :
    /\ creates < MaxCreates
    /\ qc[c].pc = "idle"
    /\ creates' = creates + 1
    /\ IF QueueInstanceSet
         THEN /\ qc' = [qc EXCEPT ![c] = QcIdle(queueInstance)]
              /\ UNCHANGED <<isConnected, redisClient>>
         ELSE IF isConnected
           THEN /\ qc' = [qc EXCEPT ![c].pc = "ensured"]
                /\ UNCHANGED <<isConnected, redisClient>>
         ELSE IF IsOpen
           THEN /\ isConnected' = TRUE
                /\ qc' = [qc EXCEPT ![c].pc = "ensured"]
                /\ UNCHANGED redisClient
         ELSE /\ redisClient' = "connecting"
              /\ qc' = [qc EXCEPT ![c].pc = "connect"]
              /\ UNCHANGED isConnected
    /\ UNCHANGED <<queueInstance, created>>
    /\ UNCHANGED <<pipeVars, heatmap, repoVars, sysVars>>
    /\ UNCHANGED <<readOut, sdkVars, sessVars, replayVars>>

\* await redisClient.connect() resolves: the socket is ready and
\* ensureConnected sets isConnected
ConnectResolve ==
  \E c \in QueueCallers :
    /\ qc[c].pc = "connect"
    /\ redisClient' = "ready"
    /\ isConnected' = TRUE
    /\ qc' = [qc EXCEPT ![c].pc = "ensured"]
    /\ UNCHANGED <<queueInstance, created, creates>>
    /\ UNCHANGED <<pipeVars, heatmap, repoVars, sysVars>>
    /\ UNCHANGED <<readOut, sdkVars, sessVars, replayVars>>

\* await redisClient.connect() rejects: the socket is closed again and the
\* catch of ensureConnected decides; a rethrown error rejects
\* createIngestionQueue
ConnectReject ==
  \E c \in QueueCallers, message \in ConnectErrors :
    /\ qc[c].pc = "connect"
    /\ redisClient' = "closed"
    /\ IF EnsureCatch(message) = "throw"
         THEN /\ qc' = [qc EXCEPT ![c].pc = "idle"]
              /\ UNCHANGED isConnected
         ELSE /\ qc' = [qc EXCEPT ![c].pc = "ensured"]
              /\ isConnected' = TRUE
    /\ UNCHANGED <<queueInstance, created, creates>>
    /\ UNCHANGED <<pipeVars, heatmap, repoVars, sysVars>>
    /\ UNCHANGED <<readOut, sdkVars, sessVars, replayVars>>

\* await ensureConnected() returned: queueInstance = new Queue(...) and the
\* call returns it
Construct ==
  \E c \in QueueCallers :
    /\ qc[c].pc = "ensured"
    /\ created' = created + 1
    /\ queueInstance' = created + 1
    /\ qc' = [qc EXCEPT ![c] = QcIdle(created + 1)]
    /\ UNCHANGED <<isConnected, redisClient, creates>>
    /\ UNCHANGED <<pipeVars, heatmap, repoVars, sysVars>>
    /\ UNCHANGED <<readOut, sdkVars, sessVars, replayVars>>

\* ------------------------------------------- initializeSDK and Container
\* the callers of the SDK entry point on one page
SdkCallers == {"u1", "u2"}

\* initializeSDK has not resolved for the caller yet
NoResult == [container |-> 0, initialized |-> FALSE, from |-> 0, to |-> 0]

\* a caller outside the SDK, whose last initializeSDK resolved with got
SdkIdle(got) == [pc |-> "idle", c |-> 0, from |-> 0, got |-> got]

\* new Container(config): initialized = false; inits counts the calls of
\* pluginRegistry.initialize() since construction or the last destroy()
NewContainer == [initialized |-> FALSE, inits |-> 0]

\* what initializeSDK resolves with, {tracker, container} of the
\* globalContainer read at that moment, with container.isInitialized() then;
\* from and to are the numbers of destroySDK steps taken when the call was
\* made and when it resolved
SdkResult(cs, from) ==
  [container |-> globalContainer, initialized |-> cs[globalContainer].initialized,
   from |-> from, to |-> destroys]

\* if (this.initialized) return of Container.initialize
AlreadyInitialized(k) == containers[k].initialized

\* caller u calls initializeSDK(config): with a globalContainer it resolves
\* with it at once; otherwise it constructs the Container and calls
\* initialize(), which calls pluginRegistry.initialize() and awaits it
InitializeSDK ==
  \E u \in SdkCallers :
    /\ sdkCalls < MaxSdkCalls
    /\ sdk[u].pc = "idle"
    /\ sdkCalls' = sdkCalls + 1
    /\ IF globalContainer # 0
         THEN /\ sdk' = [sdk EXCEPT ![u] = SdkIdle(SdkResult(containers, destroys))]
              /\ UNCHANGED <<globalContainer, containers>>
         ELSE LET k == Len(containers) + 1 IN
              /\ globalContainer' = k
              /\ containers' = Append(containers, [NewContainer EXCEPT !.inits = 1])
              /\ sdk' = [sdk EXCEPT ![u] = [pc |-> "initializeSDK", c |-> k,
                                            from |-> destroys, got |-> @.got]]
    /\ UNCHANGED destroys
    /\ UNCHANGED <<pipeVars, heatmap, repoVars, sysVars>>
    /\ UNCHANGED <<readOut, connVars, sessVars, replayVars>>

\* caller u calls initialize() of a container it holds
ContainerInitialize ==
  \E u \in SdkCallers, k \in DOMAIN containers :
    /\ sdkCalls < MaxSdkCalls
    /\ sdk[u].pc = "idle"
    /\ sdkCalls' = sdkCalls + 1
    /\ IF AlreadyInitialized(k)
         THEN UNCHANGED <<containers, sdk>>
         ELSE /\ containers' = [containers EXCEPT ![k].inits = @ + 1]
              /\ sdk' = [sdk EXCEPT ![u] = [pc |-> "initialize", c |-> k,
                                            from |-> destroys, got |-> @.got]]
    /\ UNCHANGED <<globalContainer, destroys>>
    /\ UNCHANGED <<pipeVars, heatmap, repoVars, sysVars>>
    /\ UNCHANGED <<readOut, connVars, sessVars, replayVars>>

\* await this.pluginRegistry.initialize(...) resolves: initialized = true;
\* an initializeSDK call then resolves with the globalContainer, or throws on
\* globalContainer.getTracker() when destroySDK has set it to null
PluginsInitialized ==
  \E u \in SdkCallers :
    /\ sdk[u].pc \in {"initializeSDK", "initialize"}
    /\ containers' = [containers EXCEPT ![sdk[u].c].initialized = TRUE]
    /\ sdk' = [sdk EXCEPT ![u] =
                 IF sdk[u].pc = "initializeSDK" /\ globalContainer # 0
                   THEN SdkIdle(SdkResult(containers', sdk[u].from))
                   ELSE SdkIdle(@.got)]
    /\ UNCHANGED <<globalContainer, sdkCalls, destroys>>
    /\ UNCHANGED <<pipeVars, heatmap, repoVars, sysVars>>
    /\ UNCHANGED <<readOut, connVars, sessVars, replayVars>>

\* caller u calls destroySDK(): with a globalContainer it calls destroy(),
\* which awaits pluginRegistry.destroy()
DestroySDK ==
  \E u \in SdkCallers :
    /\ sdkCalls < MaxSdkCalls
    /\ sdk[u].pc = "idle"
    /\ sdkCalls' = sdkCalls + 1
    /\ destroys' = destroys + 1
    /\ IF globalContainer # 0
         THEN sdk' = [sdk EXCEPT ![u] = [pc |-> "destroySDK", c |-> globalContainer,
                                         from |-> destroys, got |-> @.got]]
         ELSE UNCHANGED sdk
    /\ UNCHANGED <<globalContainer, containers>>
    /\ UNCHANGED <<pipeVars, heatmap, repoVars, sysVars>>
    /\ UNCHANGED <<readOut, connVars, sessVars, replayVars>>

\* await this.pluginRegistry.destroy() resolves: destroy() sets
\* initialized = false and destroySDK sets globalContainer = null
ContainerDestroyed ==
  \E u \in SdkCallers :
    /\ sdk[u].pc = "destroySDK"
    /\ containers' = [containers EXCEPT ![sdk[u].c] = NewContainer]
    /\ globalContainer' = 0
    /\ destroys' = destroys + 1
    /\ sdk' = [sdk EXCEPT ![u] = SdkIdle(@.got)]
    /\ UNCHANGED sdkCalls
    /\ UNCHANGED <<pipeVars, heatmap, repoVars, sysVars>>
    /\ UNCHANGED <<readOut, connVars, sessVars, replayVars>>

\* ---------------------------------------------------------- SessionManager
\* Time is counted in units of the clock; inactivityTimeoutMs is the
\* constructor's parameter.
\* no session id: the SessionManager is not constructed yet
NoId == [ts |-> 0 - 1, rnd |-> ""]
NoSession == [sessionId |-> NoId, sessionStartedAt |-> 0, lastActivityAt |-> 0]
\* localStorage.getItem(storageKey) gives null
NoItem == [item |-> "null"]
\* the values of Math.random().toString(36).substring(2, 15)
Randoms == {"r1", "r2"}
\* the session a former page load left in localStorage at time 0
StoredSession ==
  [sessionId |-> [ts |-> 0, rnd |-> "r0"], sessionStartedAt |-> 0,
   lastActivityAt |-> 0]

\* session-${timestamp}-${random}
generateSessionId(now, rnd) == [ts |-> now, rnd |-> rnd]

\* createNewSessionData(): the data it builds (it also persists it)
createNewSessionData(now, rnd) ==
  [sessionId |-> generateSessionId(now, rnd), sessionStartedAt |-> now,
   lastActivityAt |-> now]

\* persistSessionData(data): what localStorage holds afterwards; setItem
\* stores the data or throws (no localStorage, quota), which is swallowed
persistSessionData(data, stores) == IF stores THEN data ELSE storage

ExpiredAtTimeout(now, lastActivityAt) == now - lastActivityAt >= InactivityTimeoutMs
\* timeSinceLastActivity > this.inactivityTimeoutMs
Expired(now, lastActivityAt) == now - lastActivityAt > InactivityTimeoutMs

\* the record of a call: the method, what it returned, who called (a caller
\* of the SessionManager or its timer) and whether, since the last
\* clearSession, only updateActivity, getSessionId and getSessionMetadata
\* were called
SessCall(op, ret, by, sinceClear) ==
  [op |-> op, ret |-> ret, by |-> by, sinceClear |-> sinceClear]

Constructed == sessOp.op # "none"

\* Date.now() advances
Tick ==
  /\ clock < MaxClock
  /\ clock' = clock + 1
  /\ UNCHANGED <<sessionData, sessionId, storage, expirationCallback,
                 activityCheckInterval, callbackLog, sessOp>>
  /\ UNCHANGED <<pipeVars, heatmap, repoVars, sysVars>>
  /\ UNCHANGED <<readOut, connVars, sdkVars, replayVars>>

\* new SessionManager(storageKey, inactivityTimeoutMs): loadOrCreateSession
\* keeps a stored session that has not expired, with lastActivityAt = now,
\* and creates a session otherwise
SessionManagerNew ==
  /\ ~Constructed
  /\ \E stored \in {NoItem, StoredSession}, rnd \in Randoms, stores \in BOOLEAN :
       /\ sessionData' =
            IF stored # NoItem /\ ~Expired(clock, stored.lastActivityAt)
              THEN [stored EXCEPT !.lastActivityAt = clock]
              ELSE createNewSessionData(clock, rnd)
       /\ storage' = IF stores THEN sessionData' ELSE stored
  /\ sessionId' = sessionData'.sessionId
  /\ sessOp' = SessCall("constructor", sessionId', "caller", FALSE)
  /\ UNCHANGED <<clock, expirationCallback, activityCheckInterval, callbackLog>>
  /\ UNCHANGED <<pipeVars, heatmap, repoVars, sysVars>>
  /\ UNCHANGED <<readOut, connVars, sdkVars, replayVars>>

\* getSessionId()
GetSessionId ==
  /\ Constructed
  /\ sessOp' = SessCall("getSessionId", sessionId, "caller", sessOp.sinceClear)
  /\ UNCHANGED <<clock, sessionData, sessionId, storage, expirationCallback,
                 activityCheckInterval, callbackLog>>
  /\ UNCHANGED <<pipeVars, heatmap, repoVars, sysVars>>
  /\ UNCHANGED <<readOut, connVars, sdkVars, replayVars>>

\* getSessionMetadata()
GetSessionMetadata ==
  /\ Constructed
  /\ sessOp' = SessCall("getSessionMetadata",
                        [sessionId |-> sessionId,
                         sessionStartedAt |-> sessionData.sessionStartedAt,
                         lastActivityAt |-> sessionData.lastActivityAt,
                         age |-> clock - sessionData.sessionStartedAt,
                         inactivityDuration |-> clock - sessionData.lastActivityAt],
                        "caller", sessOp.sinceClear)
  /\ UNCHANGED <<clock, sessionData, sessionId, storage, expirationCallback,
                 activityCheckInterval, callbackLog>>
  /\ UNCHANGED <<pipeVars, heatmap, repoVars, sysVars>>
  /\ UNCHANGED <<readOut, connVars, sdkVars, replayVars>>

\* updateActivity(): lastActivityAt = now, then persistSessionData
UpdateActivity ==
  /\ Constructed
  /\ sessionData' = [sessionData EXCEPT !.lastActivityAt = clock]
  /\ \E stores \in BOOLEAN : storage' = persistSessionData(sessionData', stores)
  /\ sessOp' = SessCall("updateActivity", "", "caller", sessOp.sinceClear)
  /\ UNCHANGED <<clock, sessionId, expirationCallback, activityCheckInterval,
                 callbackLog>>
  /\ UNCHANGED <<pipeVars, heatmap, repoVars, sysVars>>
  /\ UNCHANGED <<readOut, connVars, sdkVars, replayVars>>

\* checkSessionExpired() called by by: an expired session is replaced by a
\* new one, which is persisted, and the callback, if set, is invoked
CheckBy(by) ==
  /\ Constructed
  /\ IF Expired(clock, sessionData.lastActivityAt)
       THEN /\ \E rnd \in Randoms, stores \in BOOLEAN :
                 /\ sessionData' = createNewSessionData(clock, rnd)
                 /\ storage' = persistSessionData(sessionData', stores)
            /\ sessionId' = sessionData'.sessionId
            /\ callbackLog' = IF expirationCallback
                                THEN Append(callbackLog, sessionId')
                                ELSE callbackLog
            /\ sessOp' = SessCall("checkSessionExpired", TRUE, by, FALSE)
       ELSE /\ sessOp' = SessCall("checkSessionExpired", FALSE, by, FALSE)
            /\ UNCHANGED <<sessionData, sessionId, storage, callbackLog>>
  /\ UNCHANGED <<clock, expirationCallback, activityCheckInterval>>
  /\ UNCHANGED <<pipeVars, heatmap, repoVars, sysVars>>
  /\ UNCHANGED <<readOut, connVars, sdkVars, replayVars>>

\* a caller calls checkSessionExpired()
CheckSessionExpired ==
  /\ Constructed
  /\ CheckBy("caller")

\* the setInterval timer of startExpirationMonitoring fires
IntervalFire ==
  /\ activityCheckInterval
  /\ CheckBy("timer")

\* setExpirationCallback(callback)
SetExpirationCallback ==
  /\ Constructed
  /\ expirationCallback' = TRUE
  /\ sessOp' = SessCall("setExpirationCallback", "", "caller", FALSE)
  /\ UNCHANGED <<clock, sessionData, sessionId, storage, activityCheckInterval,
                 callbackLog>>
  /\ UNCHANGED <<pipeVars, heatmap, repoVars, sysVars>>
  /\ UNCHANGED <<readOut, connVars, sdkVars, replayVars>>

\* startExpirationMonitoring(): the old timer is cleared and a timer is set
StartExpirationMonitoring ==
  /\ Constructed
  /\ activityCheckInterval' = TRUE
  /\ sessOp' = SessCall("startExpirationMonitoring", "", "caller", FALSE)
  /\ UNCHANGED <<clock, sessionData, sessionId, storage, expirationCallback,
                 callbackLog>>
  /\ UNCHANGED <<pipeVars, heatmap, repoVars, sysVars>>
  /\ UNCHANGED <<readOut, connVars, sdkVars, replayVars>>

\* startNewSession(): a new session replaces the current one and is persisted
StartNewSession ==
  /\ Constructed
  /\ \E rnd \in Randoms, stores \in BOOLEAN :
       /\ sessionData' = createNewSessionData(clock, rnd)
       /\ storage' = persistSessionData(sessionData', stores)
  /\ sessionId' = sessionData'.sessionId
  /\ sessOp' = SessCall("startNewSession", sessionId', "caller", FALSE)
  /\ UNCHANGED <<clock, expirationCallback, activityCheckInterval, callbackLog>>
  /\ UNCHANGED <<pipeVars, heatmap, repoVars, sysVars>>
  /\ UNCHANGED <<readOut, connVars, sdkVars, replayVars>>

\* clearSession(): stopExpirationMonitoring(), then removeItem(storageKey);
\* sessionId and sessionData stay as they are
ClearSession ==
  /\ Constructed
  /\ activityCheckInterval' = FALSE
  /\ storage' = NoItem
  /\ sessOp' = SessCall("clearSession", "", "caller", TRUE)
  /\ UNCHANGED <<clock, sessionData, sessionId, expirationCallback, callbackLog>>
  /\ UNCHANGED <<pipeVars, heatmap, repoVars, sysVars>>
  /\ UNCHANGED <<readOut, connVars, sdkVars, replayVars>>

\* ------------------------------------------------------------ ReplayPlugin
\* this.rrwebManager = null
NoManager == [initialized |-> FALSE, recording |-> FALSE, stopFn |-> FALSE]

\* new RrwebManager(rrweb) after init(config) with enabled: true
InitializedManager == [initialized |-> TRUE, recording |-> FALSE, stopFn |-> FALSE]

\* a ReplayPlugin as constructed; hooked: its callback is registered with
\* the SessionManager; life and lastStep tell what was called on it
NewPlugin ==
  [initialized |-> FALSE, enabled |-> FALSE, hasManager |-> FALSE,
   hooked |-> FALSE, life |-> "new", lastStep |-> "none", inits |-> 0,
   expirations |-> 0]

\* rrweb.record(options) returns the stop function, or throws
RecordOutcomes == {"started", "throws"}

\* whether RrwebManager.startRecording() calls rrweb.record(): not when the
\* manager is not initialized, and not when it is recording already
CallsRecord(m) == m.initialized /\ ~m.recording

\* RrwebManager.startRecording(): the manager afterwards
ManagerStartRecording(m, outcome) ==
  IF CallsRecord(m) /\ outcome = "started"
    THEN [m EXCEPT !.recording = TRUE, !.stopFn = TRUE]
    ELSE m

\* the recorders active after RrwebManager.startRecording()
RecordersAfterStart(m, outcome, n) ==
  IF CallsRecord(m) /\ outcome = "started" THEN n + 1 ELSE n

\* RrwebManager.stopRecording(): the manager afterwards
ManagerStopRecording(m) == [m EXCEPT !.recording = FALSE, !.stopFn = FALSE]

RecordersAfterStopLeak(m, n) == n
\* the recorders active after RrwebManager.stopRecording(): rrwebStopFn, if
\* set, is called
RecordersAfterStop(m, n) == IF m.stopFn THEN n - 1 ELSE n

\* ReplayPlugin.init(context): with replay disabled it only sets initialized;
\* otherwise it creates and initializes the manager, starts recording and
\* registers its expiration callback
PluginInit ==
  /\ plugin.inits < MaxInits
  /\ ~plugin.initialized
  /\ \E enabled \in BOOLEAN, outcome \in RecordOutcomes :
       IF ~enabled
         THEN /\ plugin' = [plugin EXCEPT !.enabled = FALSE, !.initialized = TRUE,
                                          !.life = "initialized",
                                          !.lastStep = "init", !.inits = @ + 1]
              /\ UNCHANGED <<rrwebManager, recorders>>
         ELSE /\ plugin' = [plugin EXCEPT !.enabled = TRUE, !.initialized = TRUE,
                                          !.hasManager = TRUE, !.hooked = TRUE,
                                          !.life = "initialized",
                                          !.lastStep = "init", !.inits = @ + 1]
              /\ rrwebManager' = ManagerStartRecording(InitializedManager, outcome)
              /\ recorders' = RecordersAfterStart(InitializedManager, outcome,
                                                  recorders)
  /\ UNCHANGED idleCallbacks
  /\ UNCHANGED <<pipeVars, heatmap, repoVars, sysVars>>
  /\ UNCHANGED <<readOut, connVars, sdkVars, sessVars>>

\* the SessionManager invokes the registered callback: onSessionExpired
\* returns when the plugin is disabled or has no manager; otherwise it stops
\* the recording and asks for an idle callback (a browser without
\* requestIdleCallback throws, which is caught)
SessionExpired ==
  /\ plugin.hooked
  /\ plugin.expirations < MaxExpirations
  /\ plugin' = [plugin EXCEPT !.lastStep = "expired", !.expirations = @ + 1]
  /\ IF ~plugin.enabled \/ ~plugin.hasManager
       THEN UNCHANGED <<rrwebManager, recorders, idleCallbacks>>
       ELSE /\ rrwebManager' = ManagerStopRecording(rrwebManager)
            /\ recorders' = RecordersAfterStop(rrwebManager, recorders)
            /\ \E supported \in BOOLEAN :
                 idleCallbacks' = IF supported THEN idleCallbacks + 1
                                               ELSE idleCallbacks
  /\ UNCHANGED <<pipeVars, heatmap, repoVars, sysVars>>
  /\ UNCHANGED <<readOut, connVars, sdkVars, sessVars>>

\* the browser runs an idle callback: this.startRecording(), which returns
\* when the plugin has no manager
IdleFire ==
  /\ idleCallbacks > 0
  /\ idleCallbacks' = idleCallbacks - 1
  /\ plugin' = [plugin EXCEPT !.lastStep = "idle"]
  /\ IF ~plugin.hasManager
       THEN UNCHANGED <<rrwebManager, recorders>>
       ELSE \E outcome \in RecordOutcomes :
              /\ rrwebManager' = ManagerStartRecording(rrwebManager, outcome)
              /\ recorders' = RecordersAfterStart(rrwebManager, outcome, recorders)
  /\ UNCHANGED <<pipeVars, heatmap, repoVars, sysVars>>
  /\ UNCHANGED <<readOut, connVars, sdkVars, sessVars>>

\* ReplayPlugin.destroy(): stopRecording(), then rrwebManager.destroy() and
\* rrwebManager = null; the expiration callback stays registered and enabled
\* stays as it is. It may be called in any state of the plugin.
PluginDestroy ==
  /\ plugin' = [plugin EXCEPT !.initialized = FALSE, !.hasManager = FALSE,
                              !.life = "destroyed", !.lastStep = "destroy"]
  /\ rrwebManager' = NoManager
  /\ recorders' = IF plugin.hasManager
                    THEN RecordersAfterStop(rrwebManager, recorders)
                    ELSE recorders
  /\ UNCHANGED idleCallbacks
  /\ UNCHANGED <<pipeVars, heatmap, repoVars, sysVars>>
  /\ UNCHANGED <<readOut, connVars, sdkVars, sessVars>>

Init ==
  /\ plugin = NewPlugin
  /\ rrwebManager = NoManager
  /\ recorders = 0
  /\ idleCallbacks = 0
  /\ clock = 0
  /\ sessionData = NoSession
  /\ sessionId = NoId
  /\ storage = NoItem
  /\ expirationCallback = FALSE
  /\ activityCheckInterval = FALSE
  /\ callbackLog = <<>>
  /\ sessOp = SessCall("none", "", "caller", FALSE)
  /\ globalContainer = 0
  /\ containers = <<>>
  /\ sdkCalls = 0
  /\ destroys = 0
  /\ sdk = [u \in SdkCallers |-> SdkIdle(NoResult)]
  /\ readOut = NoRead
  /\ isConnected = FALSE
  /\ queueInstance = 0
  /\ redisClient = "closed"
  /\ created = 0
  /\ creates = 0
  /\ qc = [c \in QueueCallers |-> QcIdle(0)]
  /\ jobs = <<>>
  /\ nextSeq = 1
  /\ inflight = {}
  /\ submitted = 0
  /\ resp = [status |-> 0, batchId |-> "", rid |-> 0]
  /\ lastOp = [op |-> "none", rid |-> 0]
  /\ pc = "idle"
  /\ idx = 1
  /\ results = NoResults
  /\ dispatched = <<>>
  /\ signal = "none"
  /\ heatmap = {}
  /\ executed = {}
  /\ completed = {}
  /\ rc = [c \in Callers |-> Idle]
  /\ started = 0
  /\ hits = [k \in Keys |-> 0]
  /\ latest = [k \in Keys |-> ""]
  /\ queue = "null"
  /\ health = [status |-> 0, queue |-> "", db |-> "", counts |-> ""]

Next ==
  \/ Initialize
  \/ InitializeFail
  \/ IngestNotReady
  \/ IngestStart
  \/ AddResolve
  \/ AddReject
  \/ IngestTimeout
  \/ WorkerTake
  \/ ProcessEvent
  \/ HandlerEnd
  \/ Settle
  \/ PromoteDelayed

Spec == Init /\ [][Next]_vars

\* the worker keeps running and the backoff delays elapse; nothing is assumed
\* of the clients or of pending queue.add calls
FairSpec ==
  /\ Spec
  /\ WF_vars(WorkerTake)
  /\ WF_vars(ProcessEvent)
  /\ WF_vars(HandlerEnd)
  /\ WF_vars(Settle)
  /\ WF_vars(PromoteDelayed)

\* the worker on a queue filled by a producer
HandlerNext ==
  \/ QueueProduce
  \/ WorkerTake
  \/ ProcessEvent
  \/ HandlerEnd
  \/ Settle
  \/ PromoteDelayed

HandlerSpec == Init /\ [][HandlerNext]_vars

\* the routes of the process, without the worker
HealthNext ==
  \/ Initialize
  \/ InitializeFail
  \/ IngestNotReady
  \/ IngestStart
  \/ AddResolve
  \/ AddReject
  \/ IngestTimeout
  \/ HealthCheck

HealthSpec == Init /\ [][HealthNext]_vars

\* recordClick called by one caller at a time
SeqRepoNext ==
  \/ RecordClickAlone
  \/ RecordClickSelect
  \/ RecordClickWrite
  \/ RecordClickThrow

SeqRepoSpec == Init /\ [][SeqRepoNext]_vars

\* recordClick called by callers that overlap
ConcRepoNext ==
  \/ RecordClickCall
  \/ RecordClickSelect
  \/ RecordClickWrite
  \/ RecordClickThrow

ConcRepoSpec == Init /\ [][ConcRepoNext]_vars

\* the endpoint and the worker, with the reads of the store
StoreNext ==
  \/ Initialize
  \/ IngestStart
  \/ AddResolve
  \/ WorkerTake
  \/ ProcessEvent
  \/ HandlerEnd
  \/ Settle
  \/ PromoteDelayed
  \/ GetHeatmapForUrl
  \/ GetHeatmapForSession

StoreSpec == Init /\ [][StoreNext]_vars

\* createIngestionQueue called by callers that may overlap
ConnNext ==
  \/ CreateIngestionQueue
  \/ ConnectResolve
  \/ ConnectReject
  \/ Construct

ConnSpec == Init /\ [][ConnNext]_vars

\* the SDK entry point called by callers that may overlap
SdkNext ==
  \/ InitializeSDK
  \/ ContainerInitialize
  \/ PluginsInitialized
  \/ DestroySDK
  \/ ContainerDestroyed

SdkSpec == Init /\ [][SdkNext]_vars

\* a SessionManager, its callers, its timer and the clock
SessionNext ==
  \/ Tick
  \/ SessionManagerNew
  \/ GetSessionId
  \/ GetSessionMetadata
  \/ UpdateActivity
  \/ CheckSessionExpired
  \/ IntervalFire
  \/ SetExpirationCallback
  \/ StartExpirationMonitoring
  \/ StartNewSession
  \/ ClearSession

SessionSpec == Init /\ [][SessionNext]_vars

\* a ReplayPlugin, the SessionManager's callback and the browser's idle
\* callbacks
ReplayNext ==
  \/ PluginInit
  \/ SessionExpired
  \/ IdleFire
  \/ PluginDestroy

ReplaySpec == Init /\ [][ReplayNext]_vars

\* ================================================================ claims
\* the events of the job the handler is working on
ActiveEvents == jobs[CHOOSE i \in Active : TRUE].data.events

\* C1: at every moment the queue holds at most one job whose jobId equals a
\* given batchId, however many POST /ingest requests submitted that batchId.
C1_IdempotentEnqueue ==
  \A b \in BatchIds : Cardinality(JobsWithId(jobs, b)) <= 1

\* a batchId was enqueued twice and its job is stored once
C1_Witness ==
  \E i \in DOMAIN jobs :
    /\ jobs[i].adds >= 2
    /\ Cardinality(JobsWithId(jobs, jobs[i].id)) = 1

\* C2: enqueue is a no-op when a job with the same idempotencyKey exists,
\* completed included: every job stored under the jobId of a completed job
\* is that completed job itself, so an enqueue after completion creates no
\* new job.
C2_NoJobAfterCompleted ==
  \A p \in completed :
    \A i \in JobsWithId(jobs, p[2]) : jobs[i].seq = p[1]

\* C3: a batch submitted twice is executed by one job only, and the bucket
\* of its single click ends with count 1.
C3_DoubleSubmitCountsOnce ==
  /\ Cardinality({p \in executed : p[2] = "b1"}) <= 1
  /\ \A r \in Existing(heatmap, Click1.projectId, Click1.url,
                       calculateGridBucket(Click1.xNorm),
                       calculateGridBucket(Click1.yNorm)) : r.count = 1

\* C4: the handler signals retry if and only if every event of the batch
\* failed; with failed < total (partial success or none failed) it signals
\* ok.
C4_OutcomePolicy ==
  pc = "settle" =>
    /\ signal \in {"ok", "retry"}
    /\ signal = "retry" <=> results.failed = Len(ActiveEvents)
    /\ results.failed < Len(ActiveEvents) => signal = "ok"

\* a partial failure was signalled ok
C4_Witness ==
  /\ pc = "settle"
  /\ results.failed > 0
  /\ results.failed < Len(ActiveEvents)
  /\ signal = "ok"

\* C5: within one attempt the events are dispatched exactly once each and in
\* batch order, whichever earlier events threw: the dispatched events are the
\* first idx - 1 events of the batch, all of them when the loop is over.
C5_PerEventIsolation ==
  pc \in {"loop", "settle"} =>
    /\ Len(dispatched) = idx - 1
    /\ idx <= Len(ActiveEvents) + 1
    /\ \A k \in DOMAIN dispatched : dispatched[k].eventId = ActiveEvents[k].eventId
    /\ pc = "settle" => Len(dispatched) = Len(ActiveEvents)

\* the first event threw and every later event was still dispatched
C5_Witness ==
  /\ pc = "settle"
  /\ Len(dispatched) = 5
  /\ dispatched[1].threw
  /\ dispatched[4].threw
  /\ ~dispatched[5].threw

\* the eventIds of the dispatched events whose processor threw, in order
RECURSIVE ThrownIds(_)
ThrownIds(d) ==
  IF d = <<>> THEN <<>>
  ELSE IF Head(d).threw
    THEN <<[eventId |-> Head(d).eventId]>> \o ThrownIds(Tail(d))
    ELSE ThrownIds(Tail(d))

\* C6: succeeded + failed is the number of events handled, errors has failed
\* entries, and errors lists exactly the eventIds of the events whose
\* processor threw, in batch order; after the loop the sum is the number of
\* events of the batch.
C6_OutcomeAccounting ==
  pc \in {"loop", "settle"} =>
    /\ results.succeeded + results.failed = Len(dispatched)
    /\ Len(results.errors) = results.failed
    /\ results.errors = ThrownIds(dispatched)
    /\ pc = "settle" => results.succeeded + results.failed = Len(ActiveEvents)

\* 5 events of which exactly 2 threw: succeeded 3, failed 2, signalled ok
C6_Witness ==
  /\ pc = "settle"
  /\ Len(ActiveEvents) = 5
  /\ results.succeeded = 3
  /\ results.failed = 2
  /\ results.errors = <<[eventId |-> "e2"], [eventId |-> "e5"]>>
  /\ signal = "ok"

\* C7: the handler is invoked at most 3 times for one job, and a job is
\* failed only after 3 attempts that all failed: never after fewer, never
\* with a 4th attempt.
C7_BoundedRetry ==
  \A i \in DOMAIN jobs :
    /\ jobs[i].runs <= 3
    /\ jobs[i].attemptsMade <= 3
    /\ jobs[i].state = "failed" => jobs[i].attemptsMade = 3 /\ jobs[i].runs = 3
    /\ jobs[i].state # "failed" => jobs[i].attemptsMade < 3
    /\ jobs[i].runs = jobs[i].attemptsMade + (IF jobs[i].state = "active" THEN 1 ELSE 0)

\* a job failed after its third attempt
C7_Witness ==
  \E i \in DOMAIN jobs :
    jobs[i].state = "failed" /\ jobs[i].attemptsMade = 3 /\ jobs[i].runs = 3

\* a failed job of this state is unchanged in the next state
FailedStay ==
  \A i \in DOMAIN jobs :
    jobs[i].state = "failed" =>
      \E j \in DOMAIN jobs' : jobs'[j] = [jobs[i] EXCEPT !.adds = jobs'[j].adds]

\* the job whose last attempt is reported failed is in the failed set next
ExhaustedIsFailed ==
  \A i \in Active :
    (pc = "settle" /\ pc' = "idle" /\ signal = "retry" /\ jobs[i].attemptsMade = 2)
      => \E j \in DOMAIN jobs' :
           jobs'[j].seq = jobs[i].seq /\ jobs'[j].state = "failed"

\* a job reported completed is in the queue no more
CompletedPurged ==
  \A p \in completed : \A i \in DOMAIN jobs : jobs[i].seq # p[1]

\* C8: a job marked failed stays in the failed set of the queue in every
\* later state, and a job marked completed is purged from the queue.
C8_Retention ==
  /\ [][FailedStay /\ ExhaustedIsFailed]_vars
  /\ [](CompletedPurged)

\* one job is retained as failed after another was completed and purged
C8_Witness ==
  /\ \E i \in DOMAIN jobs : jobs[i].state = "failed"
  /\ \E p \in completed : \A i \in DOMAIN jobs : jobs[i].seq # p[1]

\* job instance s is in the queue
Stored(s) == \E i \in DOMAIN jobs : jobs[i].seq = s
\* job instance s reached a terminal outcome
Terminal(s) ==
  \/ \E p \in completed : p[1] = s
  \/ \E i \in DOMAIN jobs : jobs[i].seq = s /\ jobs[i].state = "failed"

\* a job leaves the queue only by being completed
OnlyCompletedLeave ==
  \A i \in DOMAIN jobs :
    (\A j \in DOMAIN jobs' : jobs'[j].seq # jobs[i].seq)
      => <<jobs[i].seq, jobs[i].id>> \in completed'

\* every job in the queue has reached its terminal outcome
AllTerminal == \A s \in 1..MaxSubmits : Stored(s) => Terminal(s)

\* C9: with the worker running, every job accepted by enqueue eventually is
\* completed or failed and retained, and no job leaves the queue without
\* having been completed: a job leaves only as completed, and again and
\* again every job still stored is failed.
C9_NoSilentDrop ==
  /\ [][OnlyCompletedLeave]_vars
  /\ []<>AllTerminal

\* both terminal outcomes: the first job accepted is failed and retained, the
\* second is completed
C9_Witness ==
  /\ \E p \in completed : p[1] = 2
  /\ \E i \in DOMAIN jobs : jobs[i].seq = 1 /\ jobs[i].state = "failed"

\* C10 as stated: a batch failing on every attempt goes through the delays
\* 2000 ms, 4000 ms and 8000 ms before it is marked failed.
C10_ThreeDelays ==
  \A i \in DOMAIN jobs :
    jobs[i].state = "failed" => jobs[i].delays = <<2000, 4000, 8000>>

\* C10 amended: the k-th failed attempt (k = 1, 2) delays the retry by
\* 2000 * 2^(k-1) ms, so the delays are 2000 ms then 4000 ms, strictly
\* increasing and without a cap; the third failed attempt marks the job
\* failed with no further delay.
C10_BackoffDelays ==
  \A i \in DOMAIN jobs :
    LET d == jobs[i].delays IN
    /\ Len(d) = (IF jobs[i].state = "failed" THEN 2 ELSE jobs[i].attemptsMade)
    /\ \A k \in DOMAIN d : d[k] = 2000 * Pow2(k - 1)
    /\ \A k \in DOMAIN d : k > 1 => d[k] > d[k - 1]
    /\ jobs[i].state = "failed" => d = <<2000, 4000>> /\ jobs[i].attemptsMade = 3

\* a job failed on all three attempts, retried after 2000 ms and 4000 ms
C10_Witness ==
  \E i \in DOMAIN jobs :
    jobs[i].state = "failed" /\ jobs[i].delays = <<2000, 4000>>

\* the rows stored for bucket key k
RowsOf(k) == Existing(heatmap, "p1", "/home", k[1], k[2])

\* C11: with recordClick calls executed one at a time, the store holds
\* exactly one row per bucket key that was hit, none for the others, and the
\* row's count is the number of successful calls that mapped to the key.
C11_Accumulation ==
  /\ \A k \in Keys :
       IF hits[k] = 0 THEN RowsOf(k) = {}
       ELSE /\ Cardinality(RowsOf(k)) = 1
            /\ \A r \in RowsOf(k) : r.count = hits[k]
  /\ \A r \in heatmap : <<r.gridX, r.gridY>> \in Keys

\* three clicks in bucket (10, 20) give one row with count 3, a fourth click
\* in another bucket a second row with count 1
C11_Witness ==
  /\ hits[<<10, 20>>] = 3
  /\ \E r \in heatmap : r.gridX = 10 /\ r.gridY = 20 /\ r.count = 3
  /\ \E r \in heatmap : r.gridX = 49 /\ r.gridY = 0 /\ r.count = 1
  /\ Cardinality(heatmap) = 2

\* C12: for any interleaving of recordClick calls on one bucket key, after
\* all calls returned there is a single row for the key and its count is the
\* number of successful calls.
C12_NoLostUpdate ==
  (\A c \in Callers : rc[c].pc = "idle") =>
    \A k \in Keys :
      hits[k] > 0 =>
        /\ Cardinality(RowsOf(k)) = 1
        /\ \A r \in RowsOf(k) : r.count = hits[k]

\* g is clamp(floor(norm * 50), 0, 49), norm in thousandths
IsClampedFloor(norm, g) ==
  \E f \in (0 - 60)..120 :
    /\ f * 1000 <= norm * 50
    /\ norm * 50 < (f + 1) * 1000
    /\ g = (IF f < 0 THEN 0 ELSE IF f > 49 THEN 49 ELSE f)

\* the examples of the mapping: 0.0 to 0, 0.999 to 49, 1.0 to 49, -0.1 to 0
GridExample(norm, g) ==
  /\ norm = 0 => g = 0
  /\ norm = 999 => g = 49
  /\ norm = 1000 => g = 49
  /\ norm = 0 - 100 => g = 0

\* C13: calculateGridBucket(norm) is clamp(floor(norm * 50), 0, 49) for every
\* coordinate recordClick is called with, in particular on the four examples.
C13_GridBucketMapping ==
  \A c \in Callers :
    rc[c].pc # "idle" =>
      /\ IsClampedFloor(rc[c].args.xNorm, rc[c].gridX)
      /\ IsClampedFloor(rc[c].args.yNorm, rc[c].gridY)
      /\ GridExample(rc[c].args.xNorm, rc[c].gridX)
      /\ GridExample(rc[c].args.yNorm, rc[c].gridY)

\* both clamps at work: -0.1 is mapped to 0 and 1.0 to 49
C13_Witness ==
  \E c \in Callers :
    /\ rc[c].pc # "idle"
    /\ rc[c].args.xNorm = 0 - 100 /\ rc[c].gridX = 0
    /\ rc[c].args.yNorm = 1000 /\ rc[c].gridY = 49

\* C14: every row of the store has gridX and gridY in 0..49, whatever
\* coordinates the clicks that passed validation and reached the worker
\* carried or lacked.
C14_GridInRange ==
  \A r \in heatmap : r.gridX \in 0..49 /\ r.gridY \in 0..49

\* a click with yNorm = 1.0 was stored in the clamped bucket 49 and the
\* worker has run the click that was accepted with xNorm = 1.5
C14_Witness ==
  /\ \E r \in heatmap : r.gridX = 49 /\ r.gridY = 49
  /\ \E k \in DOMAIN dispatched :
       dispatched[k].eventId = Click7.eventId /\ dispatched[k].threw

\* C15: once created, a bucket's row exists in every later state, its count
\* never decreases, and each successful click into the bucket raises the
\* count of its row by exactly 1.
C15_BucketLifecycle ==
  [][/\ \A r \in heatmap :
          \E n \in heatmap' :
            /\ n.id = r.id /\ n.gridX = r.gridX /\ n.gridY = r.gridY
            /\ n.count >= r.count
     /\ \A c \in Callers :
          (/\ rc[c].pc = "write" /\ rc[c].existing # {}
           /\ hits' # hits /\ rc'[c].pc = "idle") =>
            \A e \in rc[c].existing :
              \E r \in heatmap, n \in heatmap' :
                /\ r.id = e.id /\ n.id = e.id
                /\ n.count = r.count + 1]_vars

\* C16: after any sequence of clicks a bucket's descriptive metadata is that
\* of the click processed last.
C16_MetadataLastWriteWins ==
  \A k \in Keys : \A r \in RowsOf(k) : r.selector = latest[k]

\* the request whose body the handler read in this step was answered with
\* status and nothing was handed to the queue
AnsweredAtOnce(status) ==
  /\ resp' = [status |-> status, batchId |-> "", rid |-> lastOp'.rid]
  /\ inflight' = inflight
  /\ jobs' = jobs
  /\ nextSeq' = nextSeq

\* the payloads in flight and in the queue all passed validateBatch
OnlyValidQueued ==
  /\ \A r \in inflight :
       /\ validateBatch(r.body).valid
       /\ r.batch = validateBatch(r.body).data
       /\ r.batch.batchId # ""
       /\ Len(r.batch.events) >= 1
       /\ \A k \in DOMAIN r.body.events : EventSchema(r.body.events[k])
  /\ \A i \in DOMAIN jobs :
       /\ \E p \in Payloads : /\ validateBatch(p).valid
                              /\ jobs[i].data = validateBatch(p).data
       /\ validateBatch(jobs[i].data).valid

\* C17 as stated: every POST /ingest whose payload fails validateBatch is
\* answered 400, queue.add is not called for it and the queue is unchanged;
\* every pending queue.add and every job carries a payload that passed
\* validateBatch.
C17_Always400 ==
  /\ [][(/\ lastOp' # lastOp
         /\ lastOp'.op = "post"
         /\ IsJson(lastOp'.body)
         /\ ~validateBatch(lastOp'.body).valid) => AnsweredAtOnce(400)]_vars
  /\ []OnlyValidQueued

\* C17: a POST /ingest whose payload fails validateBatch is answered 400
\* once the queue is initialized and 503 before (the route answers before
\* ingestHandler runs); in both cases queue.add is not called for it and the
\* queue is unchanged; every pending queue.add and every job carries a
\* payload that passed validateBatch.
C17_InvalidNeverQueued ==
  /\ [][(/\ lastOp' # lastOp
         /\ lastOp'.op = "post"
         /\ IsJson(lastOp'.body)
         /\ ~validateBatch(lastOp'.body).valid) =>
          IF QueueIsNull THEN AnsweredAtOnce(503)
                         ELSE AnsweredAtOnce(400)]_vars
  /\ []OnlyValidQueued

\* a batch with an event that is no event of any type was answered 400 while
\* the queue holds a job of an earlier request
C17_Witness ==
  /\ lastOp.op = "post"
  /\ lastOp.body = [batchId |-> "b3", events |-> <<Bad8>>]
  /\ resp = [status |-> 400, batchId |-> "", rid |-> lastOp.rid]
  /\ jobs # <<>>

\* e has the fields its declared type requires
EventSchemaTyped(e) ==
  IF e.type = "rrweb" THEN RrwebEventSchema(e)
  ELSE IF e.type = "click" THEN ClickEventSchema(e)
  ELSE BaseEventSchema(e)

\* C18: validateBatch accepts an event only if it matches the required
\* fields of its declared type: an accepted body has at least one event,
\* each of its events matches its type, and every click of a job has xNorm
\* and yNorm within [0, 1] and a non-empty selector and tagName.
C18_TypeSpecificValidation ==
  /\ \A r \in inflight :
       /\ Len(r.body.events) >= 1
       /\ \A k \in DOMAIN r.body.events : EventSchemaTyped(r.body.events[k])
  /\ \A i \in DOMAIN jobs :
       \A k \in DOMAIN jobs[i].data.events :
         EventSchemaTyped(jobs[i].data.events[k])

\* the steps of the worker
WorkerVars == <<pc, idx, results, dispatched, signal, heatmap, executed,
                completed>>

\* C19: a 202 is sent only in the step in which the queue.add of a request
\* that was not answered resolves, carries that request's batchId, the job of
\* that id is stored, and the step is none of the worker's; the 202 can be
\* there while the job is waiting for its first attempt.
C19_AcceptThenProcess ==
  [][(resp' # resp /\ resp'.status = 202) =>
       /\ lastOp'.op = "resolved"
       /\ \E r \in inflight :
            /\ ~r.answered
            /\ r \notin inflight'
            /\ lastOp'.rid = r.rid
            /\ resp' = [status |-> 202, batchId |-> r.batch.batchId,
                        rid |-> r.rid]
            /\ JobsWithId(jobs', r.batch.batchId) # {}
       /\ UNCHANGED WorkerVars]_vars

\* the 202 was sent and the worker has not run at all: the job is waiting
\* for its first attempt
C19_Witness ==
  /\ resp.status = 202
  /\ executed = {}
  /\ pc = "idle"
  /\ \E i \in DOMAIN jobs :
       /\ jobs[i].id = resp.batchId
       /\ jobs[i].state = "waiting"
       /\ jobs[i].runs = 0

\* C20: when queue.add rejects or the 5 s timer fires first, the request is
\* answered 500; a request that was answered gets no other answer, so never
\* a 202; the queue.add of a timed-out request stays pending.
C20_EnqueueFailure ==
  [][/\ (lastOp' # lastOp /\ lastOp'.op = "timeout") =>
          /\ resp' = [status |-> 500, batchId |-> "", rid |-> lastOp'.rid]
          /\ \E r \in inflight' : r.rid = lastOp'.rid /\ r.answered
     /\ (lastOp' # lastOp /\ lastOp'.op = "rejected") =>
          \E r \in inflight :
            /\ r.rid = lastOp'.rid
            /\ r \notin inflight'
            /\ IF r.answered THEN resp' = resp
               ELSE resp' = [status |-> 500, batchId |-> "", rid |-> r.rid]
     /\ \A r \in inflight :
          r.answered => (resp'.rid = r.rid => resp' = resp)
     /\ resp' # resp =>
          \/ lastOp'.op = "post" /\ resp'.rid = lastOp'.rid
          \/ \E r \in inflight : ~r.answered /\ resp'.rid = r.rid]_vars

\* the only request was answered 500 by the timer and its queue.add went
\* through afterwards: the batch has a job
C20_Witness ==
  /\ submitted = 1
  /\ resp.status = 500
  /\ lastOp.op = "resolved"
  /\ \E i \in DOMAIN jobs : jobs[i].runs = 0

\* C21: once a request for a batch was answered 500 by the timer, neither a
\* re-submission nor the late completion of its queue.add creates a job for
\* the batch after a job of the batch was handed to the worker: the batch is
\* the work of at most one job.
C21_SafeRetry ==
  [][\A r \in inflight :
       (/\ r.answered
        /\ \E x \in executed : x[2] = r.batch.batchId) =>
         \A i \in DOMAIN jobs' :
           jobs'[i].id = r.batch.batchId =>
             \E j \in DOMAIN jobs : jobs[j].seq = jobs'[i].seq]_vars

\* C22: while queue is null every POST /ingest is answered 503 and nothing is
\* handed to the queue: no queue.add is pending and no job exists before
\* initialize() assigned the queue.
C22_NotInitializedGuard ==
  /\ [](queue = "null" => (jobs = <<>> /\ inflight = {} /\ nextSeq = 1))
  /\ [][(queue = "null" /\ lastOp' # lastOp /\ lastOp'.op = "post") =>
          /\ resp' = [status |-> 503, batchId |-> "", rid |-> lastOp'.rid]
          /\ jobs' = jobs
          /\ inflight' = inflight]_vars

\* a valid batch was posted before initialize() finished and answered 503
C22_Witness ==
  /\ queue = "null"
  /\ lastOp.op = "post"
  /\ lastOp.body = [batchId |-> "b1", events |-> <<Click1>>]
  /\ resp.status = 503
  /\ jobs = <<>>

\* C26: GET /health answers 200 exactly when the queue is initialized, the
\* database is reachable and the job counts were read, and 503 in every
\* other case.
C26_HealthStatus ==
  health.status # 0 =>
    /\ health.status = 200 <=>
         (/\ health.queue = "ready"
          /\ health.db = "connected"
          /\ health.counts = "counted")
    /\ health.status # 200 => health.status = 503

\* the sum of the counts of a set of rows
RECURSIVE TotalCount(_)
TotalCount(rows) ==
  IF rows = {} THEN 0
  ELSE LET r == CHOOSE x \in rows : TRUE
       IN r.count + TotalCount(rows \ {r})

\* C23: at most one job is active at a time and the worker is idle exactly
\* when none is; the events of the active job are passed to routeEvent one
\* after the other in their order, so a step of the worker records at most
\* one click.
C23_SingleFlight ==
  /\ [](/\ Cardinality(Active) <= 1
        /\ (pc = "idle") <=> (Active = {})
        /\ Active # {} =>
             /\ Len(dispatched) <= Len(ActiveEvents)
             /\ \A k \in DOMAIN dispatched :
                  dispatched[k].eventId = ActiveEvents[k].eventId
             /\ pc = "loop" => idx = Len(dispatched) + 1)
  /\ [][heatmap' # heatmap =>
          /\ Active' = Active
          /\ Len(dispatched') = Len(dispatched) + 1
          /\ TotalCount(heatmap') = TotalCount(heatmap) + 1]_vars

\* a job is in the handler, its second event was dispatched, and another job
\* is waiting for the worker
C23_Witness ==
  /\ Cardinality(Active) = 1
  /\ Waiting # {}
  /\ Len(dispatched) >= 2

\* the processor the dispatcher is to call for a type
ProcessorOf(type) ==
  CASE type = "click" -> "processClickEvent"
    [] type \in {"rrweb", "session_snapshot"} -> "processRrwebEvent"
    [] type = "pageview" -> "processPageViewEvent"
    [] OTHER -> "none"

\* C24: routeEvent calls for each event the processor of its type and no
\* other: the click processor for click, the replay-storage processor for
\* rrweb and session_snapshot, the pageview processor for pageview.
C24_DispatcherRouting ==
  Active # {} =>
    \A k \in DOMAIN dispatched :
      dispatched[k].proc = ProcessorOf(ActiveEvents[k].type)

\* the types that are skipped: not implemented (input, route, custom) or not
\* recognized
SkippedTypes == {"input", "route", "custom", "scroll"}

\* C25: an event of a skipped type is passed to no processor and counts as
\* succeeded; a job whose events are all of skipped types ends with failed = 0
\* and returns (no retry).
C25_SkippedNotFailed ==
  Active # {} =>
    /\ \A k \in DOMAIN dispatched :
         ActiveEvents[k].type \in SkippedTypes =>
           dispatched[k].proc = "none" /\ ~dispatched[k].threw
    /\ results.failed =
         Cardinality({k \in DOMAIN dispatched : dispatched[k].threw})
    /\ results.succeeded =
         Cardinality({k \in DOMAIN dispatched : ~dispatched[k].threw})
    /\ (/\ pc = "settle"
        /\ \A k \in DOMAIN ActiveEvents : ActiveEvents[k].type \in SkippedTypes) =>
         /\ results.failed = 0
         /\ results.succeeded = Len(ActiveEvents)
         /\ signal = "ok"

\* the handler returned for a batch of an input, a route and a custom event
C25_Witness ==
  /\ pc = "settle"
  /\ Active # {}
  /\ ActiveEvents = <<Input9, Route10, Custom4>>
  /\ results = [succeeded |-> 3, failed |-> 0, errors |-> <<>>]
  /\ signal = "ok"

\* getHeatmapForUrl returns all and only the rows of the pair, each once,
\* ordered by (gridX, gridY)
UrlReadExact ==
  LET res == getHeatmapForUrl(heatmap, "p1", "/home") IN
  /\ {res[k] : k \in DOMAIN res} =
       {r \in heatmap : r.projectId = "p1" /\ r.url = "/home"}
  /\ Len(res) = Cardinality({res[k] : k \in DOMAIN res})
  /\ \A k \in DOMAIN res : \A l \in DOMAIN res :
       k < l => \/ res[k].gridX < res[l].gridX
                \/ res[k].gridX = res[l].gridX /\ res[k].gridY <= res[l].gridY
  /\ getHeatmapForUrl(heatmap, "p1", "/cart") = <<>>

\* the session of the click that was recorded last into bucket k
LatestSession(k) ==
  (CHOOSE a \in ClickArgs : a.selector = latest[k]).sessionId

\* C27: getHeatmapForUrl returns all and only the buckets of the pair, in the
\* order of (gridX, gridY); getHeatmapForSession(s) returns rows of s only and
\* every bucket into which a click of session s was recorded.
C27_ReadInterfaces ==
  /\ UrlReadExact
  /\ \A a \in ClickArgs :
       \A r \in getHeatmapForSession(heatmap, a.sessionId) :
         r.sessionId = a.sessionId
  /\ \A k \in Keys :
       hits[k] > 0 =>
         \E r \in getHeatmapForSession(heatmap, LatestSession(k)) :
           r.gridX = k[1] /\ r.gridY = k[2]

\* C28: the payload of a job is never modified by the queue or the worker:
\* as long as a job instance is stored its batchId and events are the same,
\* and every attempt that ran to the end of the loop passed exactly the
\* events of the payload to routeEvent, in their order.
C28_BatchImmutable ==
  /\ [][\A i \in DOMAIN jobs : \A j \in DOMAIN jobs' :
          jobs'[j].seq = jobs[i].seq =>
            /\ jobs'[j].id = jobs[i].id
            /\ jobs'[j].data = jobs[i].data]_vars
  /\ [](\A i \in DOMAIN jobs :
          /\ jobs[i].id = jobs[i].data.batchId
          /\ \E p \in Payloads : /\ validateBatch(p).valid
                                 /\ validateBatch(p).data = jobs[i].data)
  /\ []((pc = "settle" /\ Active # {}) =>
          /\ Len(dispatched) = Len(ActiveEvents)
          /\ \A k \in DOMAIN dispatched :
               dispatched[k].eventId = ActiveEvents[k].eventId)

\* the third attempt of a two-event batch ran to the end of the loop with
\* the payload of the first
C28_Witness ==
  /\ pc = "settle"
  /\ \E i \in Active :
       /\ jobs[i].runs = 3
       /\ jobs[i].data =
            validateBatch([batchId |-> "b2", events |-> <<View2, Click7>>]).data
       /\ Len(dispatched) = 2

\* the record of inflight for request rid
InflightOf(rid) == CHOOSE r \in inflight : r.rid = rid

\* the response after a step of a POST /ingest handler, from what the caller
\* and the enqueue gave: the body, and how queue.add or the timer settled
ExpectedResp(op) ==
  CASE op.op = "post" ->
         IF queue = "null" THEN [status |-> 503, batchId |-> "", rid |-> op.rid]
         ELSE IF ~IsJson(op.body)
           THEN [status |-> 500, batchId |-> "", rid |-> op.rid]
         ELSE IF ~validateBatch(op.body).valid
           THEN [status |-> 400, batchId |-> "", rid |-> op.rid]
         ELSE resp
    [] op.op = "resolved" ->
         IF InflightOf(op.rid).answered THEN resp
         ELSE [status |-> 202, batchId |-> InflightOf(op.rid).body.batchId,
               rid |-> op.rid]
    [] op.op = "rejected" ->
         IF InflightOf(op.rid).answered THEN resp
         ELSE [status |-> 500, batchId |-> "", rid |-> op.rid]
    [] op.op = "timeout" ->
         [status |-> 500, batchId |-> "", rid |-> op.rid]

\* the requests awaiting queue.add after a step of a handler, likewise
ExpectedInflight(op) ==
  CASE op.op = "post" ->
         IF queue = "ready" /\ IsJson(op.body) /\ validateBatch(op.body).valid
           THEN inflight \cup {[rid |-> op.rid, body |-> op.body,
                                batch |-> validateBatch(op.body).data,
                                answered |-> FALSE]}
           ELSE inflight
    [] op.op \in {"resolved", "rejected"} -> inflight \ {InflightOf(op.rid)}
    [] op.op = "timeout" ->
         (inflight \ {InflightOf(op.rid)}) \cup
           {[InflightOf(op.rid) EXCEPT !.answered = TRUE]}

\* C29: the responses of POST /ingest are a function of the requests and of
\* the outcomes of validation and enqueue alone: a step of a handler sends
\* the response these determine, whatever the jobs and the worker did, and
\* no other step sends or changes a response.
C29_ResponsesHideProcessing ==
  [][IF lastOp' = lastOp
       THEN UNCHANGED <<resp, inflight, submitted>>
       ELSE /\ resp' = ExpectedResp(lastOp')
            /\ inflight' = ExpectedInflight(lastOp')
            /\ submitted' = IF lastOp'.op = "post" THEN submitted + 1
                            ELSE submitted]_vars

\* the second request for a batch was answered 202 with the job of the
\* batch failed for good, or with its events processed
C29_Witness ==
  /\ resp = [status |-> 202, batchId |-> "b1", rid |-> 2]
  /\ \E i \in DOMAIN jobs :
       jobs[i].id = "b1" /\ jobs[i].state = "failed" /\ jobs[i].adds >= 2

\* v is a result of validateBatch: {valid: true, data} with a batch, or
\* {valid: false, error} with a message
IsValidationResult(v) ==
  \/ /\ DOMAIN v = {"valid", "data"}
     /\ v.valid = TRUE
     /\ DOMAIN v.data = {"batchId", "events"}
  \/ /\ DOMAIN v = {"valid", "error"}
     /\ v.valid = FALSE
     /\ v.error # ""

\* C30: for every JSON body, batch or not, validateBatch returns
\* {valid: true, data} or {valid: false, error}; the step that validates
\* changes nothing of the queue, the worker or the store, and a body that is
\* refused leaves no trace but the response.
C30_ValidateTotalPure ==
  /\ []((lastOp.op = "post" /\ IsJson(lastOp.body)) =>
          IsValidationResult(validateBatch(lastOp.body)))
  /\ [][(lastOp' # lastOp /\ lastOp'.op = "post") =>
          /\ UNCHANGED <<jobs, nextSeq, WorkerVars, repoVars, sysVars>>
          /\ inflight \subseteq inflight'
          /\ (IsJson(lastOp'.body) /\ ~validateBatch(lastOp'.body).valid) =>
               inflight' = inflight]_vars

\* an object without batchId and the JSON null were each refused with 400
C30_Witness ==
  /\ lastOp.op = "post"
  /\ lastOp.body = JsonNull
  /\ lastOp.rid = 2
  /\ resp = [status |-> 400, batchId |-> "", rid |-> 2]

\* the initializeSDK calls of callers u and v were made and resolved with no
\* step of destroySDK before, between or during them
SameEpoch(u, v) ==
  /\ sdk[u].got # NoResult
  /\ sdk[v].got # NoResult
  /\ sdk[u].got.from = sdk[u].got.to
  /\ sdk[v].got.from = sdk[v].got.to
  /\ sdk[u].got.from = sdk[v].got.from

\* between two destroySDK calls every initializeSDK call resolves with the
\* same container, and a Container is constructed only while there is none
OneContainer ==
  /\ [](\A u, v \in SdkCallers :
          SameEpoch(u, v) => sdk[u].got.container = sdk[v].got.container)
  /\ [](destroys = 0 => Len(containers) <= 1)
  /\ [][Len(containers') > Len(containers) => globalContainer = 0]_vars

\* C31: between two destroySDK calls every initializeSDK call resolves with
\* the same container, only the first call constructs a Container, and every
\* call resolves with a container whose isInitialized() is true.
C31_SdkSingleton ==
  /\ OneContainer
  /\ [](\A u \in SdkCallers :
          sdk[u].got # NoResult => sdk[u].got.initialized)

\* C38: between its construction and destroy(), and between two destroy()
\* calls, a container calls pluginRegistry.initialize() at most once, however
\* its initialize() calls overlap.
C38_InitializeOnce ==
  \A k \in DOMAIN containers : containers[k].inits <= 1

\* C32: however createIngestionQueue calls follow or overlap each other, at
\* most one Queue is constructed and every caller is returned that instance.
C32_QueueSingleton ==
  /\ created <= 1
  /\ \A c, d \in QueueCallers :
       (qc[c].got # 0 /\ qc[d].got # 0) => qc[c].got = qc[d].got

\* isConnected is set only while the socket of redisClient is open, be it
\* ready or still connecting
ConnectedImpliesIsOpen == isConnected => IsOpen

\* C39: isConnected implies that the client's socket is ready; no
\* ensureConnected call has returned, and no Queue is constructed, while the
\* client's connect is pending; a connect that fails leaves isConnected
\* false.
C39_ConnectedFlagSound ==
  /\ [](isConnected => redisClient = "ready")
  /\ [](\A c \in QueueCallers :
          qc[c].pc = "ensured" => redisClient # "connecting")
  /\ [][created' > created => redisClient # "connecting"]_vars
  /\ [][(redisClient = "connecting" /\ redisClient' = "closed") =>
          ~isConnected']_vars


\* C33: retries never re-apply a succeeded event. In one attempt every event
\* of the batch is dispatched once, in order; an attempt in which some event
\* did not fail ends with the job completed, and a job that left the queue or
\* is completed or failed is never run again, so an event that succeeded is
\* not dispatched by a later attempt; and the store changes only by one
\* successful click, which adds one to one bucket.
C33_RetryNeverReapplies ==
  /\ [](/\ Len(dispatched) = idx - 1
        /\ pc # "idle" =>
             /\ Cardinality(Active) = 1
             /\ \A k \in DOMAIN dispatched :
                  /\ k <= Len(ActiveEvents)
                  /\ dispatched[k].eventId = ActiveEvents[k].eventId)
  /\ [][(/\ pc = "settle"
         /\ pc' = "idle"
         /\ \E k \in DOMAIN dispatched : ~dispatched[k].threw)
        => \A i \in Active : \A j \in DOMAIN jobs' :
             jobs'[j].seq = jobs[i].seq => jobs'[j].state = "completed"]_vars
  /\ [][\A j \in DOMAIN jobs' :
          \/ /\ jobs'[j].seq = nextSeq
             /\ nextSeq' > nextSeq
             /\ jobs'[j].runs = 0
          \/ \E i \in DOMAIN jobs :
               /\ jobs[i].seq = jobs'[j].seq
               /\ jobs[i].state \in {"completed", "failed"}
                    => /\ jobs'[j].state = jobs[i].state
                       /\ jobs'[j].runs = jobs[i].runs]_vars
  /\ [][heatmap' # heatmap
        => /\ pc = "loop"
           /\ dispatched' = Append(dispatched, dispatched'[Len(dispatched')])
           /\ dispatched'[Len(dispatched')].proc = "processClickEvent"
           /\ ~dispatched'[Len(dispatched')].threw
           /\ TotalCount(heatmap') = TotalCount(heatmap) + 1]_vars

\* a retried job whose click failed in an earlier attempt succeeded in this
\* one: the attempt ends with the handler returning
C33_Witness ==
  /\ pc = "settle"
  /\ signal = "ok"
  /\ \E i \in Active : jobs[i].runs >= 2
  /\ \E k \in DOMAIN dispatched :
       /\ dispatched[k].proc = "processClickEvent"
       /\ ~dispatched[k].threw
  /\ heatmap # {}


\* the step from rows to rows2 changed exactly one row, a row of the bucket
\* (projectId, url, gridX, gridY): it was added, or it replaced the row of
\* the same id; every other row is as it was
OneRowOfKey(rows, rows2, projectId, url, gridX, gridY) ==
  \E r \in rows2 \ rows :
    /\ rows2 \ rows = {r}
    /\ r.projectId = projectId /\ r.url = url
    /\ r.gridX = gridX /\ r.gridY = gridY
    /\ \/ rows \ rows2 = {}
       \/ \E o \in rows \ rows2 :
            /\ rows \ rows2 = {o}
            /\ o.id = r.id
            /\ o.projectId = projectId /\ o.url = url
            /\ o.gridX = gridX /\ o.gridY = gridY

\* the worker's step is a click event whose recordClick returned
ClickRecorded ==
  /\ pc = "loop"
  /\ Len(dispatched') = Len(dispatched) + 1
  /\ dispatched'[Len(dispatched')].proc = "processClickEvent"
  /\ ~dispatched'[Len(dispatched')].threw

\* C34: frame of the bucket store. A step changes the store only when it is
\* a click event whose recordClick returned, and then exactly one row
\* changes, the row of the click's own key (projectId, url, gridX, gridY);
\* the reads, validation, enqueue, the dispatch of other events and a
\* recordClick that throws leave every row as it was.
C34_StoreFrame ==
  [][IF ClickRecorded
       THEN LET e == ActiveEvents[idx] IN
            OneRowOfKey(heatmap, heatmap', e.projectId, e.url,
                        calculateGridBucket(e.xNorm),
                        calculateGridBucket(e.yNorm))
       ELSE heatmap' = heatmap]_vars

\* two clicks were recorded into two buckets, and a read returned both rows
\* while the worker was between two events
C34_Witness ==
  /\ Cardinality(heatmap) = 2
  /\ \A r \in heatmap : r.count = 1
  /\ readOut.op = "url"
  /\ Len(readOut.rows) = 2
  /\ pc = "loop"
  /\ dispatched # <<>>

\* the frame of recordClick for the direct callers of the repository: the
\* store changes only when a write of a call returns, and then in one row of
\* the call's own key
RepoFrame ==
  [][heatmap' # heatmap
     => \E c \in Callers :
          /\ rc[c].pc = "write"
          /\ rc'[c] = Idle
          /\ OneRowOfKey(heatmap, heatmap', rc[c].args.projectId,
                         rc[c].args.url, rc[c].gridX, rc[c].gridY)]_vars


\* a step that is a call of checkSessionExpired(), by a caller or the timer
CheckStep == sessOp'.op = "checkSessionExpired" /\ clock' = clock

\* what a call of checkSessionExpired() returns and does; persisted says
\* what localStorage holds after a rotation
CheckEffect(persisted) ==
  CheckStep =>
    /\ sessOp'.ret = (clock - sessionData.lastActivityAt > InactivityTimeoutMs)
    /\ IF sessOp'.ret
         THEN /\ sessionId' # sessionId
              /\ sessionId' = sessionData'.sessionId
              /\ sessionId'.ts = clock
              /\ sessionData'.sessionStartedAt = clock
              /\ sessionData'.lastActivityAt = clock
              /\ persisted
              /\ callbackLog' = IF expirationCallback
                                  THEN Append(callbackLog, sessionId')
                                  ELSE callbackLog
         ELSE /\ sessionId' = sessionId
              /\ sessionData' = sessionData
              /\ storage' = storage
              /\ callbackLog' = callbackLog

\* C35 as stated: checkSessionExpired() returns true if and only if
\* now - lastActivityAt > inactivityTimeoutMs; when true the session is
\* replaced by a new one (sessionStartedAt = lastActivityAt = now), the new
\* data is persisted and the callback, if set, is invoked once with the new
\* sessionId; when false nothing changes and the callback is not invoked.
C35_ExpirationCheck == [][CheckEffect(storage' = sessionData')]_vars

\* C35, amended: as above, but the new data is persisted only when
\* localStorage accepts the write; when setItem throws the error is
\* swallowed and the storage keeps what it held.
C35_ExpirationCheckStored ==
  [][CheckEffect(storage' = sessionData' \/ storage' = storage)]_vars

\* the timer's check found the session expired: the session was rotated and
\* persisted and the callback got the new sessionId
C35_Witness ==
  /\ sessOp.op = "checkSessionExpired"
  /\ sessOp.ret = TRUE
  /\ sessOp.by = "timer"
  /\ callbackLog # <<>>
  /\ callbackLog[Len(callbackLog)] = sessionId
  /\ storage = sessionData
  /\ sessionData.sessionStartedAt = clock

\* C36: cleared sessions stay cleared: after clearSession(), and as long as
\* only updateActivity, getSessionId and getSessionMetadata are called, no
\* session data is stored under the storage key and no expiration timer is
\* active.
C36_ClearedStaysCleared ==
  sessOp.sinceClear => storage = NoItem /\ ~activityCheckInterval

\* the timer half of C36: no timer is active after clearSession()
ClearedNoTimer == sessOp.sinceClear => ~activityCheckInterval


RestartReached ==
  /\ plugin.lastStep = "idle"
  /\ plugin.expirations >= 1
  /\ recorders = 1

====
